---- MODULE Spec2Model ----
(***************************************************************************)
(* Model of the arxivdigest backend generation pipeline:                    *)
(*   backend/main.py      generate_summaries, run_arxiv_summarizer_async,   *)
(*                        process_category, fetch_arxiv_paper,              *)
(*                        analyze_pdf_by_arxiv_id, get_generation_status,   *)
(*                        get_categories, get_papers_by_category,           *)
(*                        get_papers, get_paper_by_slug                     *)
(*   backend/llm.py       LLMSummarizer.score_papers_by_title,              *)
(*                        detailed_paper_summary                            *)
(*   backend/arxiv.py     ArxivFetcher.fetch_papers_by_category             *)
(*   backend/database.py  MockCollection find / find_one / insert_one /     *)
(*                        update_one / count_documents                      *)
(* One action is one stretch of a coroutine between two suspension points   *)
(* of the asyncio event loop (an await that really yields).                 *)
(***************************************************************************)
EXTENDS Integers, Sequences, FiniteSets, TLC

\* ------------------------------------------------------------------------
\* Bounds of the model
\* ------------------------------------------------------------------------
\* number of GET /api/generate requests issued
MaxRuns == 2
\* number of on-demand requests (fetch-arxiv-paper / pdf-analysis) issued
MaxReqs == 2
\* longest candidate list handed to score_papers_by_title on its own
MaxCand == 3
\* longest text handed to slugify on its own
MaxLen == 4

\* ------------------------------------------------------------------------
\* Program constants
\* ------------------------------------------------------------------------
\* asyncio.Semaphore(3)
SemaphoreLimit == 3
\* scores.append((5, i)) for a line that does not parse
NeutralScore == 5
\* fetch_papers_by_category(category, max_papers_per_category * 3)
FetchFactor == 3
\* initial_max_results = max_results * 5
InitialFactor == 5
\* days_back: int = 7
DaysBack == 7
\* max_retries = 3
MaxRetries == 3
\* if len(pdf_content) < 1000
MinPdfBytes == 1000

\* ------------------------------------------------------------------------
\* Universe: the partition keys that a category table can hold and the
\* documents of the external catalog, newest first.  "p2" is cross-listed, so
\* a query for either of its categories returns it.
\* ------------------------------------------------------------------------
Categories == {"cs.LG", "cs.CL", "cs.CV", "stat.ML"}
NoCategory == "None"
Catalog ==
  << [entry_id |-> "p1", categories |-> {"cs.LG"}, primary |-> "cs.LG"],
     [entry_id |-> "p2", categories |-> {"cs.LG", "cs.CL"}, primary |-> "cs.CL"],
     [entry_id |-> "p3", categories |-> {"cs.CV"}, primary |-> "cs.CV"],
     [entry_id |-> "p4", categories |-> {"stat.ML"}, primary |-> "stat.ML"] >>
\* the category table of the batch pipeline and of the wide one
TwoCategories == {"cs.LG", "cs.CL"}
PaperIds == {Catalog[i].entry_id : i \in DOMAIN Catalog}
\* values of the max_papers query parameter that the requests use
MaxPapersValues == {1, 2}
\* the calendar date string of "today"
Today == "d1"

Runs == 1..MaxRuns
Reqs == 1..MaxReqs

\* ------------------------------------------------------------------------
\* Generic helpers
\* ------------------------------------------------------------------------
Min(a, b) == IF a <= b THEN a ELSE b
Max(a, b) == IF a >= b THEN a ELSE b
Range(s) == {s[i] : i \in DOMAIN s}

\* Python s[:k]
PySlice(s, k) ==
  IF k >= 0 THEN SubSeq(s, 1, Min(k, Len(s)))
            ELSE SubSeq(s, 1, Max(Len(s) + k, 0))

\* ------------------------------------------------------------------------
\* The document store (paper_details_collection).  A collection is the
\* sequence of its documents in insertion order; every insert_one adds a
\* document with a fresh _id, so equal contents do not collapse.
\* ------------------------------------------------------------------------
\* a key that a document does not have reads as None
None == "None"
Doc(id, cat, date) ==
  [arxiv_id |-> id, category_code |-> cat, processed_date |-> date,
   pdf_analysis |-> FALSE, pdf_status |-> None, pdf_path |-> None]

\* index of the first document with this arxiv_id, 0 when there is none
find_one(coll, id) ==
  IF \E i \in DOMAIN coll : coll[i].arxiv_id = id
  THEN CHOOSE i \in DOMAIN coll :
         /\ coll[i].arxiv_id = id
         /\ \A j \in DOMAIN coll : coll[j].arxiv_id = id => i <= j
  ELSE 0

\* find({"category_code": cat, "processed_date": date})
find(coll, cat, date) ==
  SelectSeq(coll, LAMBDA d : d.category_code = cat /\ d.processed_date = date)

\* find({}, {"arxiv_id": 1}) folded into the set of ids
ExistingPaperIds(coll) == {coll[i].arxiv_id : i \in DOMAIN coll}

\* variant: the inserted document takes the place of the stored ones
insert_one_Replaces(coll, doc) == <<doc>>

insert_one(coll, doc) == Append(coll, doc)

\* variant: the upsert inserts without looking for a match
update_one_AlwaysInserts(coll, id, fields, upsert) ==
  insert_one(coll,
    [f \in DOMAIN Doc(id, "unknown", Today) |->
       IF f \in DOMAIN fields THEN fields[f] ELSE Doc(id, "unknown", Today)[f]])

\* update_one({"arxiv_id": id}, {"$set": fields}, upsert): $set overwrites
\* the given keys of the first match and keeps the others
update_one(coll, id, fields, upsert) ==
  LET i == find_one(coll, id) IN
  IF i # 0
  THEN [coll EXCEPT ![i] =
          [f \in DOMAIN coll[i] |->
             IF f \in DOMAIN fields THEN fields[f] ELSE coll[i][f]]]
  ELSE IF upsert
       THEN insert_one(coll,
              [f \in DOMAIN Doc(id, "unknown", Today) |->
                 IF f \in DOMAIN fields THEN fields[f]
                 ELSE Doc(id, "unknown", Today)[f]])
       ELSE coll

CountId(coll, id) == Cardinality({i \in DOMAIN coll : coll[i].arxiv_id = id})

\* ------------------------------------------------------------------------
\* LLMSummarizer.score_papers_by_title
\* A response line is <<"ok", n>> (contains "Score: n -") or <<"bad", 0>>.
\* ------------------------------------------------------------------------
ScoreValues == {3, 5, 8}
Lines == {<<"bad", 0>>} \cup {<<"ok", n>> : n \in ScoreValues}
OracleError == << <<"error", 0>> >>
\* content.strip().split('\n') has at least one element
Responses(n) == UNION {[1..m -> Lines] : m \in 1..(n + 1)}

\* the loop over scores_text: one (score, i) per line of the RESPONSE
ParseScores(resp) ==
  [i \in DOMAIN resp |->
     IF resp[i][1] = "ok" THEN <<resp[i][2], i - 1>>
                          ELSE <<NeutralScore, i - 1>>]

\* tuple comparison of Python: by score, then by index
TupleGreater(a, b) == a[1] > b[1] \/ (a[1] = b[1] /\ a[2] > b[2])

RECURSIVE SortReverse(_)
\* scores.sort(reverse=True)
SortReverse(s) ==
  IF s = << >> THEN << >>
  ELSE LET m == CHOOSE i \in DOMAIN s :
                  \A j \in DOMAIN s : j # i => TupleGreater(s[i], s[j])
           rest == [j \in 1..(Len(s) - 1) |-> IF j < m THEN s[j] ELSE s[j + 1]]
       IN <<s[m]>> \o SortReverse(rest)

\* the value score_papers_by_title returns
score_papers_by_title(papers, top_k, resp) ==
  IF papers = << >> THEN << >>
  ELSE IF resp = OracleError THEN PySlice(papers, top_k)
  ELSE LET top == PySlice(SortReverse(ParseScores(resp)), top_k) IN
       \* titles_with_ids[idx] raises IndexError for idx >= len(papers)
       IF \E j \in DOMAIN top : top[j][2] >= Len(papers)
       THEN PySlice(papers, top_k)
       ELSE [j \in DOMAIN top |-> papers[top[j][2] + 1]]

\* ------------------------------------------------------------------------
\* ArxivFetcher.fetch_papers_by_category
\* ------------------------------------------------------------------------
CatalogIds == [i \in DOMAIN Catalog |-> Catalog[i].entry_id]
InCategory(cat) ==
  {Catalog[i].entry_id : i \in {j \in DOMAIN Catalog : cat \in Catalog[j].categories}}

\* what client.results(search) can yield that is recent: any part of the
\* category's documents, newest first
RecentResults(cat) ==
  {SelectSeq(CatalogIds, LAMBDA p : p \in S) : S \in SUBSET InCategory(cat)}

\* the loop appends, then breaks once len(results) >= initial_max_results
FetchLoop(recent, max_results) ==
  SubSeq(recent, 1, Min(Len(recent), Max(max_results * InitialFactor, 1)))

\* outcomes of one call: a list (kind "ok" or "empty"), an exception caught
\* inside the fetcher (returns []), an exception raised before its try
FetchOutcomes(cat, max_results) ==
  {[kind |-> IF FetchLoop(s, max_results) = << >> THEN "empty" ELSE "ok",
    papers |-> FetchLoop(s, max_results)] : s \in RecentResults(cat)}
  \cup {[kind |-> "caught", papers |-> << >>],
        [kind |-> "raised", papers |-> << >>]}


\* ------------------------------------------------------------------------
\* State
\* ------------------------------------------------------------------------
VARIABLES
  generation_in_progress,    \* main.py:29, absent key read as False
  paper_details_collection,  \* the store
  run,                       \* per GET /api/generate request and its background run
  proc,                      \* per run and category: the process_category task
  semaphore,                 \* per run: permits of its asyncio.Semaphore
  last,                      \* per category: candidates of the last finished processor, whether it
                             \* ended without a failure, whether all its candidates were stored then
  reqs,                      \* on-demand requests
  rank,                      \* a call of score_papers_by_title on its own
  reads,                     \* a read request (status or query endpoint)
  categories,                \* keys of ArxivFetcher.categories
  slugcall,                  \* a call of slugify on its own
  seen,                      \* per category: since the status request began there was an instant
                             \* at which the key had a record of today and its flag was false
  download,                  \* a call of download_and_analyze_pdf on its own
  fetchcall                  \* a call of fetch_papers_by_category on its own

vars == <<generation_in_progress, paper_details_collection, run, proc,
          semaphore, last, reqs, rank, reads, categories, download, fetchcall, slugcall, seen>>

\* finds, rankings and enriched[i] count the calls made so far: the id query
\* of the store, score_papers_by_title, detailed_paper_summary of worker i
NoProc ==
  [pc |-> "none", fetch |-> "none", papers |-> << >>, new_papers |-> << >>,
   selected |-> << >>, worker |-> << >>, summary |-> << >>, exit |-> "none",
   repeat |-> FALSE, repeatStored |-> FALSE,
   finds |-> 0, rankings |-> 0, ranked |-> "none", enriched |-> << >>]
\* error is "setup" once the background run has failed before its fetch loop
NoRun ==
  [pc |-> "unused", checked |-> {}, cats |-> {}, max_papers |-> 0,
   result |-> << >>, existing_papers |-> << >>, generation_status |-> << >>,
   error |-> "none"]
\* hit: the lookup found a record; searches, summaries, writes count the
\* catalog searches, oracle calls and store writes the request has made
NoReq ==
  [pc |-> "unused", kind |-> "none", arxiv_id |-> "none", use_mongodb |-> TRUE,
   status |-> 0, hit |-> FALSE, searches |-> 0, summaries |-> 0, writes |-> 0]
NoRank ==
  [pc |-> "idle", papers |-> << >>, top_k |-> 0, resp |-> << >>,
   scores |-> << >>, selected |-> << >>]
NoSlug == [pc |-> "idle", text |-> << >>, slug |-> << >>, again |-> << >>]
\* log holds the outcome of every urlopen attempt made so far
NoDownload == [pc |-> "idle", attempt |-> 0, log |-> << >>]
NoFetch ==
  [pc |-> "idle", category |-> None, max_results |-> 0, age |-> << >>,
   results |-> << >>, failed |-> FALSE]
NoRead ==
  [pc |-> "unused", kind |-> "none", cat |-> "none", todo |-> << >>,
   is_generating |-> FALSE, existing_count |-> 0, status_info |-> << >>,
   total |-> 0, papers |-> << >>, code |-> 0, error |-> FALSE,
   asked |-> None, sort_by |-> None]

Init ==
  /\ generation_in_progress = [c \in Categories |-> FALSE]
  /\ paper_details_collection = << >>
  /\ run = [r \in Runs |-> NoRun]
  /\ proc = [r \in Runs |-> [c \in Categories |-> NoProc]]
  /\ semaphore = [r \in Runs |-> SemaphoreLimit]
  /\ last = [c \in Categories |-> [cands |-> << >>, clean |-> FALSE, stored |-> FALSE]]
  /\ reqs = [q \in Reqs |-> NoReq]
  /\ rank = NoRank
  /\ reads = NoRead
  /\ categories = TwoCategories
  /\ download = NoDownload
  /\ fetchcall = NoFetch
  /\ slugcall = NoSlug
  /\ seen = [c \in Categories |-> FALSE]

\* ------------------------------------------------------------------------
\* History of the status view: while GET /api/generation-status is between
\* its first flag read and its return, every state in which a key has a
\* record of today and a false flag is remembered in seen
\* ------------------------------------------------------------------------
StatusRequestOpen ==
  reads.kind = "status" /\ reads.pc \in {"count_today", "count_total"}

Observed(open, flags, coll) ==
  [c \in Categories |->
     \/ seen[c]
     \/ open /\ ~flags[c] /\ find(coll, c, Today) # << >>]

\* ------------------------------------------------------------------------
\* The in-progress map
\* ------------------------------------------------------------------------
\* variant: the flag is left as it is
SetFlag_Noop(flags, cat) == flags

\* generation_in_progress[cat] = True
SetFlag(flags, cat) == [flags EXCEPT ![cat] = TRUE]
\* generation_in_progress[category] = False
ClearFlag(flags, cat) == [flags EXCEPT ![cat] = FALSE]

\* ------------------------------------------------------------------------
\* GET /api/generate (generate_summaries).  The handler has no await: the
\* loop over the categories, the flag updates and add_task are one step.
\* ------------------------------------------------------------------------
\* variant: the in-progress flag is not consulted
NeedsGeneration_IgnoresFlag(flags, coll, cat) ==
  find(coll, cat, Today) = << >>

\* a category is selected when it is not generating and has no paper today
NeedsGeneration(flags, coll, cat) ==
  /\ ~flags[cat]
  /\ find(coll, cat, Today) = << >>

CategoriesToCheck(category) ==
  IF category = NoCategory THEN categories ELSE {category}

\* generation_status[cat]["status"] of the response
GenerationStatus(flags, coll, cat) ==
  IF flags[cat] THEN "in_progress"
  ELSE IF find(coll, cat, Today) # << >> THEN "completed"
  ELSE "starting"

\* variant: today's records are returned whatever the flag says
ExistingPapers_IgnoresFlag(flags, coll, checked) ==
  [c \in {k \in checked : find(coll, k, Today) # << >>} |-> find(coll, c, Today)]

\* existing_papers of the response: today's records of the keys that are not
\* generating
ExistingPapers(flags, coll, checked) ==
  [c \in {k \in checked : ~flags[k] /\ find(coll, k, Today) # << >>} |->
     find(coll, c, Today)]

NextRun(r) == run[r].pc = "unused" /\ \A q \in Runs : q < r => run[q].pc # "unused"

generate_summaries(r, category, max_papers) ==
  /\ NextRun(r)
  /\ LET checked == CategoriesToCheck(category)
         categories_to_process ==
           {c \in checked :
              NeedsGeneration(generation_in_progress, paper_details_collection, c)}
     IN /\ generation_in_progress' =
             [c \in Categories |->
                IF c \in categories_to_process
                THEN SetFlag(generation_in_progress, c)[c]
                ELSE generation_in_progress[c]]
        /\ run' = [run EXCEPT ![r] =
             [pc |-> IF categories_to_process = {} THEN "nothing" ELSE "scheduled",
              checked |-> checked,
              cats |-> categories_to_process,
              max_papers |-> IF categories_to_process = {} THEN 0 ELSE max_papers,
              result |-> << >>,
              existing_papers |->
                ExistingPapers(generation_in_progress, paper_details_collection, checked),
              generation_status |->
                [c \in checked |->
                   GenerationStatus(generation_in_progress, paper_details_collection, c)],
              error |-> "none"]]
  /\ UNCHANGED <<paper_details_collection, proc, semaphore, last, reqs, rank, reads, categories, download, fetchcall, slugcall, seen>>

\* the store lookup raises inside the loop: the except clause clears the
\* flags this request has set (they were False before) and answers 500
generate_summaries_error(r, category) ==
  /\ NextRun(r)
  /\ run' = [run EXCEPT ![r] =
       [pc |-> "failed", checked |-> CategoriesToCheck(category),
        cats |-> {}, max_papers |-> 0, result |-> << >>,
        existing_papers |-> << >>, generation_status |-> << >>, error |-> "none"]]
  /\ UNCHANGED <<generation_in_progress, paper_details_collection, proc,
                 semaphore, last, reqs, rank, reads, categories, download, fetchcall, slugcall, seen>>

\* ------------------------------------------------------------------------
\* run_arxiv_summarizer_async, up to `await asyncio.gather(*tasks)`: the
\* fetches are synchronous calls, so the whole loop is one step.
\* ------------------------------------------------------------------------
AllFetchOutcomes ==
  UNION {FetchOutcomes(c, m * FetchFactor) : c \in Categories, m \in MaxPapersValues}

run_fetch(r) ==
  /\ run[r].pc = "scheduled"
  /\ \E fetched \in [run[r].cats -> AllFetchOutcomes] :
       /\ \A c \in run[r].cats :
            fetched[c] \in FetchOutcomes(c, run[r].max_papers * FetchFactor)
       /\ LET category_papers == {c \in run[r].cats : fetched[c].papers # << >>}
          IN /\ generation_in_progress' =
                  [c \in Categories |->
                     IF c \in run[r].cats /\ fetched[c].kind = "raised"
                     THEN ClearFlag(generation_in_progress, c)[c]
                     ELSE generation_in_progress[c]]
             /\ proc' = [proc EXCEPT ![r] =
                  [c \in Categories |->
                     IF c \in run[r].cats
                     THEN [NoProc EXCEPT
                             !.fetch = fetched[c].kind,
                             !.papers = fetched[c].papers,
                             !.pc = IF c \in category_papers THEN "waiting" ELSE "none"]
                     ELSE NoProc]]
             /\ run' = [run EXCEPT ![r].pc =
                  IF category_papers = {} THEN "returned" ELSE "gathering"]
  /\ seen' = Observed(StatusRequestOpen, generation_in_progress', paper_details_collection)
  /\ UNCHANGED <<paper_details_collection, semaphore, last, reqs, rank, reads, categories, download, fetchcall, slugcall>>


\* ------------------------------------------------------------------------
\* process_category_with_semaphore / process_category
\* ------------------------------------------------------------------------
\* variant: nothing is filtered out
NewPapers_NoFilter(papers, existing_paper_ids) == papers

\* new_papers = [paper for paper in papers if paper.entry_id not in existing_paper_ids]
NewPapers(papers, existing_paper_ids) ==
  SelectSeq(papers, LAMBDA p : p \notin existing_paper_ids)

\* variant: one worker that returned None empties the list
ProcResult_AllOrNothing(p) ==
  IF \E i \in DOMAIN p.worker : p.worker[i] # "saved"
  THEN << >>
  ELSE p.selected

\* the documents process_category returns: the workers that did not return None
ProcResult(p) ==
  LET idx == SelectSeq([i \in DOMAIN p.selected |-> i],
                       LAMBDA i : p.worker[i] = "saved")
  IN [j \in DOMAIN idx |-> p.selected[idx[j]]]

\* whether this call repeats the candidates of the last finished call for cat
Repeats(cat, papers) == papers = last[cat].cands

\* variant: the permit is not given back
ProcExit_KeepsPermit(r, cat, fields, kind, held, coll) ==
  /\ proc' = [proc EXCEPT ![r][cat] = [fields EXCEPT !.pc = "exited", !.exit = kind]]
  /\ generation_in_progress' = ClearFlag(generation_in_progress, cat)
  /\ seen' = Observed(StatusRequestOpen, generation_in_progress', coll)
  /\ semaphore' = semaphore
  /\ last' = [last EXCEPT ![cat] =
       [cands |-> fields.papers,
        clean |-> kind # "raised"
                  /\ \A i \in DOMAIN fields.worker : fields.worker[i] = "saved",
        stored |-> Range(fields.papers) \subseteq ExistingPaperIds(coll)]]

\* variant: the finally clauses do not clear the flag
ProcExit_KeepsFlag(r, cat, fields, kind, held, coll) ==
  /\ proc' = [proc EXCEPT ![r][cat] = [fields EXCEPT !.pc = "exited", !.exit = kind]]
  /\ generation_in_progress' = generation_in_progress
  /\ seen' = Observed(StatusRequestOpen, generation_in_progress', coll)
  /\ semaphore' = IF held THEN [semaphore EXCEPT ![r] = @ + 1] ELSE semaphore
  /\ last' = [last EXCEPT ![cat] =
       [cands |-> fields.papers,
        clean |-> kind # "raised"
                  /\ \A i \in DOMAIN fields.worker : fields.worker[i] = "saved",
        stored |-> Range(fields.papers) \subseteq ExistingPaperIds(coll)]]

\* both finally clauses and the release of the semaphore: the processor of
\* (r, cat) is left with the given exit; held says whether a permit was
\* taken in an earlier step
ProcExit(r, cat, fields, kind, held, coll) ==
  /\ proc' = [proc EXCEPT ![r][cat] = [fields EXCEPT !.pc = "exited", !.exit = kind]]
  /\ generation_in_progress' = ClearFlag(generation_in_progress, cat)
  /\ seen' = Observed(StatusRequestOpen, generation_in_progress', coll)
  /\ semaphore' = IF held THEN [semaphore EXCEPT ![r] = @ + 1] ELSE semaphore
  /\ last' = [last EXCEPT ![cat] =
       [cands |-> fields.papers,
        clean |-> kind # "raised"
                  /\ \A i \in DOMAIN fields.worker : fields.worker[i] = "saved",
        stored |-> Range(fields.papers) \subseteq ExistingPaperIds(coll)]]

Started(r, cat) ==
  [proc[r][cat] EXCEPT
     !.repeat = Repeats(cat, proc[r][cat].papers) /\ last[cat].clean,
     !.repeatStored = Repeats(cat, proc[r][cat].papers) /\ last[cat].stored]

\* paper_details_collection.find({}, {"arxiv_id": 1}) has been called
Queried(p) == [p EXCEPT !.finds = @ + 1]

\* variant: the id query of the store comes before the test for an empty list
process_category_empty_QueriesFirst(r, cat) ==
  /\ proc[r][cat].pc = "waiting"
  /\ semaphore[r] > 0
  /\ proc[r][cat].papers = << >>
  /\ ProcExit(r, cat, Queried(Started(r, cat)), "empty", FALSE, paper_details_collection)
  /\ UNCHANGED <<paper_details_collection, run, reqs, rank, reads, categories, download, fetchcall, slugcall>>

\* the task gets a permit and sets the flag; papers is empty: return [] before
\* the store is looked at
process_category_empty(r, cat) ==
  /\ proc[r][cat].pc = "waiting"
  /\ semaphore[r] > 0
  /\ proc[r][cat].papers = << >>
  /\ ProcExit(r, cat, Started(r, cat), "empty", FALSE, paper_details_collection)
  /\ UNCHANGED <<paper_details_collection, run, reqs, rank, reads, categories, download, fetchcall, slugcall>>

\* the task gets a permit, sets the flag, and the unfiltered id query raises:
\* except clause, return []
process_category_find_error(r, cat) ==
  /\ proc[r][cat].pc = "waiting"
  /\ semaphore[r] > 0
  /\ proc[r][cat].papers # << >>
  /\ ProcExit(r, cat, Queried(Started(r, cat)), "raised", FALSE, paper_details_collection)
  /\ UNCHANGED <<paper_details_collection, run, reqs, rank, reads, categories, download, fetchcall, slugcall>>

\* every candidate is already stored: return [] before any oracle call
process_category_deduped(r, cat) ==
  /\ proc[r][cat].pc = "waiting"
  /\ semaphore[r] > 0
  /\ proc[r][cat].papers # << >>
  /\ NewPapers(proc[r][cat].papers, ExistingPaperIds(paper_details_collection)) = << >>
  /\ ProcExit(r, cat, Queried(Started(r, cat)), "deduped", FALSE, paper_details_collection)
  /\ UNCHANGED <<paper_details_collection, run, reqs, rank, reads, categories, download, fetchcall, slugcall>>

\* variant: the candidates are ranked as they came, the stored ids are not
\* taken out before the oracle call
process_category_rank_BeforeDedup(r, cat) ==
  /\ proc[r][cat].pc = "waiting"
  /\ semaphore[r] > 0
  /\ proc[r][cat].papers # << >>
  /\ proc' = [proc EXCEPT ![r][cat] =
       [Queried(Started(r, cat)) EXCEPT
          !.pc = "ranking", !.new_papers = proc[r][cat].papers, !.rankings = @ + 1]]
  /\ semaphore' = [semaphore EXCEPT ![r] = @ - 1]
  /\ generation_in_progress' = SetFlag(generation_in_progress, cat)
  /\ UNCHANGED <<paper_details_collection, run, last, reqs, rank, reads, categories, download, fetchcall, slugcall, seen>>

\* the remainder is handed to score_papers_by_title, which awaits the oracle
process_category_rank(r, cat) ==
  /\ proc[r][cat].pc = "waiting"
  /\ semaphore[r] > 0
  /\ LET new_papers ==
           NewPapers(proc[r][cat].papers, ExistingPaperIds(paper_details_collection))
     IN /\ new_papers # << >>
        /\ proc' = [proc EXCEPT ![r][cat] =
             [Queried(Started(r, cat)) EXCEPT
                !.pc = "ranking", !.new_papers = new_papers, !.rankings = @ + 1]]
  /\ semaphore' = [semaphore EXCEPT ![r] = @ - 1]
  /\ generation_in_progress' = SetFlag(generation_in_progress, cat)
  /\ UNCHANGED <<paper_details_collection, run, last, reqs, rank, reads, categories, download, fetchcall, slugcall, seen>>

\* the oracle answers (or fails); the selected papers get one worker each
score_return(r, cat) ==
  /\ proc[r][cat].pc = "ranking"
  /\ \E resp \in Responses(Len(proc[r][cat].new_papers)) \cup {OracleError} :
       LET selected_papers ==
             score_papers_by_title(proc[r][cat].new_papers, run[r].max_papers, resp)
       IN proc' = [proc EXCEPT ![r][cat] =
            [@ EXCEPT !.pc = "workers",
                      !.selected = selected_papers,
                      !.worker = [i \in DOMAIN selected_papers |-> "dispatched"],
                      !.summary = [i \in DOMAIN selected_papers |-> "none"],
                      !.enriched = [i \in DOMAIN selected_papers |-> 0]]]
  /\ UNCHANGED <<generation_in_progress, paper_details_collection, run,
                 semaphore, last, reqs, rank, reads, categories, download, fetchcall, slugcall, seen>>

\* the responses in which no line has a score
UnusableResponses(n) == {resp \in Responses(n) : \A i \in DOMAIN resp : resp[i][1] = "bad"}

\* score_return for an oracle call that raises (ranked "raised") or answers
\* without a single score line (ranked "unusable")
score_return_unusable(r, cat) ==
  /\ proc[r][cat].pc = "ranking"
  /\ \E resp \in UnusableResponses(Len(proc[r][cat].new_papers)) \cup {OracleError} :
       LET selected_papers ==
             score_papers_by_title(proc[r][cat].new_papers, run[r].max_papers, resp)
       IN proc' = [proc EXCEPT ![r][cat] =
            [@ EXCEPT !.pc = "workers",
                      !.ranked = IF resp = OracleError THEN "raised" ELSE "unusable",
                      !.selected = selected_papers,
                      !.worker = [i \in DOMAIN selected_papers |-> "dispatched"],
                      !.summary = [i \in DOMAIN selected_papers |-> "none"],
                      !.enriched = [i \in DOMAIN selected_papers |-> 0]]]
  /\ UNCHANGED <<generation_in_progress, paper_details_collection, run,
                 semaphore, last, reqs, rank, reads, categories, download, fetchcall, slugcall, seen>>

\* ------------------------------------------------------------------------
\* process_and_save_paper, the worker of one selected paper
\* ------------------------------------------------------------------------
\* the keys of paper_detail_doc that the model keeps
PaperDetailDoc(id, cat) ==
  [arxiv_id |-> id, category_code |-> cat, processed_date |-> Today]

\* pdf_status of the summary detailed_paper_summary returns: the oracle call
\* failed, the download for the reader failed, or both went through
PdfStatus(summary) ==
  CASE summary = "failed" -> "Summary failed"
    [] summary = "download_failed" -> "Download failed"
    [] OTHER -> "Successfully downloaded"

\* variant: the path is reported whatever the download did
PdfPath_Always(pdf_status) == "paper_downloads/title.pdf"

\* str(pdf_path) if pdf_status == "Successfully downloaded" else None
PdfPath(pdf_status) ==
  IF pdf_status = "Successfully downloaded" THEN "paper_downloads/title.pdf" ELSE None

\* the pdf keys of paper_detail_doc
PdfFields(summary) ==
  [pdf_status |-> PdfStatus(summary), pdf_path |-> PdfPath(PdfStatus(summary))]

WorkerAt(r, cat, i, st) ==
  /\ proc[r][cat].pc = "workers"
  /\ i \in DOMAIN proc[r][cat].worker
  /\ proc[r][cat].worker[i] = st

SetWorker(r, cat, i, st) ==
  proc' = [proc EXCEPT ![r][cat].worker[i] = st]

\* the call of detailed_paper_summary by worker i is over and the worker goes
\* on to st
Enriched(r, cat, i, st) ==
  proc' = [proc EXCEPT ![r][cat].worker[i] = st, ![r][cat].enriched[i] = @ + 1]

\* variant: the worker returns the document without the upsert
enrich_SkipsSave(r, cat, i) ==
  /\ WorkerAt(r, cat, i, "dispatched")
  /\ Enriched(r, cat, i, "saved")
  /\ UNCHANGED <<generation_in_progress, paper_details_collection, run,
                 semaphore, last, reqs, rank, reads, categories, download, fetchcall, slugcall, seen>>

\* detailed_paper_summary returns, the document is built and update_one is
\* handed to the executor
enrich(r, cat, i) ==
  /\ WorkerAt(r, cat, i, "dispatched")
  /\ Enriched(r, cat, i, "saving")
  /\ UNCHANGED <<generation_in_progress, paper_details_collection, run,
                 semaphore, last, reqs, rank, reads, categories, download, fetchcall, slugcall, seen>>

\* detailed_paper_summary raises: except clause, return None
enrich_raise(r, cat, i) ==
  /\ WorkerAt(r, cat, i, "dispatched")
  /\ Enriched(r, cat, i, "dropped")
  /\ UNCHANGED <<generation_in_progress, paper_details_collection, run,
                 semaphore, last, reqs, rank, reads, categories, download, fetchcall, slugcall, seen>>

\* the worker gets a paper_summary that is not a complete one and goes on to
\* st; summary[i] stays "none" for a complete summary and for an exception
Summarized(r, cat, i, summary, st) ==
  proc' = [proc EXCEPT ![r][cat].worker[i] = st, ![r][cat].summary[i] = summary,
                       ![r][cat].enriched[i] = @ + 1]

\* the oracle call of detailed_paper_summary fails: its except clause returns
\* a summary with the title, the arxiv_id and "Summary failed", and the worker
\* builds the document and hands update_one to the executor
enrich_oracle_failed(r, cat, i) ==
  /\ WorkerAt(r, cat, i, "dispatched")
  /\ Summarized(r, cat, i, "failed", "saving")
  /\ UNCHANGED <<generation_in_progress, paper_details_collection, run,
                 semaphore, last, reqs, rank, reads, categories, download, fetchcall, slugcall, seen>>

\* the oracle call goes through and paper.download_pdf raises: the summary
\* comes back with pdf_status "Download failed: ..." and the worker builds the
\* document and hands update_one to the executor
enrich_download_failed(r, cat, i) ==
  /\ WorkerAt(r, cat, i, "dispatched")
  /\ Summarized(r, cat, i, "download_failed", "saving")
  /\ UNCHANGED <<generation_in_progress, paper_details_collection, run,
                 semaphore, last, reqs, rank, reads, categories, download, fetchcall, slugcall, seen>>

\* paper_summary has no title: return None
enrich_untitled(r, cat, i) ==
  /\ WorkerAt(r, cat, i, "dispatched")
  /\ Summarized(r, cat, i, "untitled", "dropped")
  /\ UNCHANGED <<generation_in_progress, paper_details_collection, run,
                 semaphore, last, reqs, rank, reads, categories, download, fetchcall, slugcall, seen>>

\* paper_detail_doc has no arxiv_id: return None
enrich_no_id(r, cat, i) ==
  /\ WorkerAt(r, cat, i, "dispatched")
  /\ Summarized(r, cat, i, "no_id", "dropped")
  /\ UNCHANGED <<generation_in_progress, paper_details_collection, run,
                 semaphore, last, reqs, rank, reads, categories, download, fetchcall, slugcall, seen>>

\* the executor thread applies the upsert to the store
save_land(r, cat, i) ==
  /\ WorkerAt(r, cat, i, "saving")
  /\ paper_details_collection' =
       update_one(paper_details_collection, proc[r][cat].selected[i],
                  PaperDetailDoc(proc[r][cat].selected[i], cat)
                    @@ PdfFields(proc[r][cat].summary[i]), TRUE)
  /\ SetWorker(r, cat, i, "landed")
  /\ seen' = Observed(StatusRequestOpen, generation_in_progress, paper_details_collection')
  /\ UNCHANGED <<generation_in_progress, run, semaphore, last, reqs, rank, reads, categories, download, fetchcall, slugcall>>

\* update_one raises: except clause, return None
save_error(r, cat, i) ==
  /\ WorkerAt(r, cat, i, "saving")
  /\ SetWorker(r, cat, i, "dropped")
  /\ UNCHANGED <<generation_in_progress, paper_details_collection, run,
                 semaphore, last, reqs, rank, reads, categories, download, fetchcall, slugcall, seen>>

\* the worker resumes after the upsert and returns paper_detail_doc
save_resume(r, cat, i) ==
  /\ WorkerAt(r, cat, i, "landed")
  /\ SetWorker(r, cat, i, "saved")
  /\ UNCHANGED <<generation_in_progress, paper_details_collection, run,
                 semaphore, last, reqs, rank, reads, categories, download, fetchcall, slugcall, seen>>

\* gather over the workers is complete: return processed_papers
process_category_return(r, cat) ==
  /\ proc[r][cat].pc = "workers"
  /\ \A i \in DOMAIN proc[r][cat].worker :
       proc[r][cat].worker[i] \in {"saved", "dropped"}
  /\ ProcExit(r, cat, proc[r][cat], "returned", TRUE, paper_details_collection)
  /\ UNCHANGED <<paper_details_collection, run, reqs, rank, reads, categories, download, fetchcall, slugcall>>

\* the orders in which a dict built from the set S can be walked
Orders(S) ==
  {o \in [1..Cardinality(S) -> S] : \A i, j \in DOMAIN o : o[i] = o[j] => i = j}

\* variant: one partition that raised empties the result of the whole run
AllPapers_FailsWhole(p, order) ==
  IF \E i \in DOMAIN order : p[order[i]].exit = "raised"
  THEN << >>
  ELSE LET docs(c) == [j \in DOMAIN ProcResult(p[c]) |->
                         PaperDetailDoc(ProcResult(p[c])[j], c)]
           RECURSIVE extend(_)
           extend(k) == IF k = 0 THEN << >> ELSE extend(k - 1) \o docs(order[k])
       IN extend(Len(order))

\* all_papers: the lists the tasks returned, in the order of the tasks
AllPapers(p, order) ==
  LET docs(c) == [j \in DOMAIN ProcResult(p[c]) |->
                    PaperDetailDoc(ProcResult(p[c])[j], c)]
      RECURSIVE extend(_)
      extend(k) == IF k = 0 THEN << >> ELSE extend(k - 1) \o docs(order[k])
  IN extend(Len(order))

\* gather over the categories is complete: return all_papers
run_return(r) ==
  /\ run[r].pc = "gathering"
  /\ \A c \in Categories : proc[r][c].pc \in {"none", "exited"}
  /\ \E order \in Orders({c \in run[r].cats : proc[r][c].pc = "exited"}) :
       run' = [run EXCEPT ![r].pc = "returned",
                          ![r].result = AllPapers(proc[r], order)]
  /\ UNCHANGED <<generation_in_progress, paper_details_collection, proc,
                 semaphore, last, reqs, rank, reads, categories, download, fetchcall, slugcall, seen>>

\* ------------------------------------------------------------------------
\* The batch pipeline
\* ------------------------------------------------------------------------
Next ==
  \/ \E r \in Runs, category \in categories \cup {NoCategory}, m \in MaxPapersValues :
       generate_summaries(r, category, m)
  \/ \E r \in Runs, category \in categories \cup {NoCategory} :
       generate_summaries_error(r, category)
  \/ \E r \in Runs : run_fetch(r)
  \/ \E r \in Runs, c \in Categories : process_category_find_error(r, c)
  \/ \E r \in Runs, c \in Categories : process_category_deduped(r, c)
  \/ \E r \in Runs, c \in Categories : process_category_rank(r, c)
  \/ \E r \in Runs, c \in Categories : score_return(r, c)
  \/ \E r \in Runs, c \in Categories, i \in 1..MaxCand : enrich(r, c, i)
  \/ \E r \in Runs, c \in Categories, i \in 1..MaxCand : enrich_raise(r, c, i)
  \/ \E r \in Runs, c \in Categories, i \in 1..MaxCand : save_land(r, c, i)
  \/ \E r \in Runs, c \in Categories, i \in 1..MaxCand : save_error(r, c, i)
  \/ \E r \in Runs, c \in Categories, i \in 1..MaxCand : save_resume(r, c, i)
  \/ \E r \in Runs, c \in Categories : process_category_return(r, c)
  \/ \E r \in Runs : run_return(r)

Spec == Init /\ [][Next]_vars

\* ------------------------------------------------------------------------
\* One orchestrator run with every outcome of an item worker
\* ------------------------------------------------------------------------
NextWorkers ==
  \/ \E category \in categories \cup {NoCategory}, m \in MaxPapersValues :
       generate_summaries(1, category, m)
  \/ \E r \in Runs : run_fetch(r)
  \/ \E r \in Runs, c \in Categories : process_category_find_error(r, c)
  \/ \E r \in Runs, c \in Categories : process_category_deduped(r, c)
  \/ \E r \in Runs, c \in Categories : process_category_rank(r, c)
  \/ \E r \in Runs, c \in Categories : score_return(r, c)
  \/ \E r \in Runs, c \in Categories, i \in 1..MaxCand : enrich(r, c, i)
  \/ \E r \in Runs, c \in Categories, i \in 1..MaxCand : enrich_oracle_failed(r, c, i)
  \/ \E r \in Runs, c \in Categories, i \in 1..MaxCand : enrich_untitled(r, c, i)
  \/ \E r \in Runs, c \in Categories, i \in 1..MaxCand : enrich_no_id(r, c, i)
  \/ \E r \in Runs, c \in Categories, i \in 1..MaxCand : enrich_raise(r, c, i)
  \/ \E r \in Runs, c \in Categories, i \in 1..MaxCand : save_land(r, c, i)
  \/ \E r \in Runs, c \in Categories, i \in 1..MaxCand : save_error(r, c, i)
  \/ \E r \in Runs, c \in Categories, i \in 1..MaxCand : save_resume(r, c, i)
  \/ \E r \in Runs, c \in Categories : process_category_return(r, c)
  \/ \E r \in Runs : run_return(r)

SpecWorkers == Init /\ [][NextWorkers]_vars

\* ------------------------------------------------------------------------
\* A category table of four keys, so that more partitions are queued than one
\* semaphore admits: a request for one category followed by a request for all
\* of them, while the enrichment oracle is down (every worker returns None,
\* the store stays empty)
\* ------------------------------------------------------------------------
InitCap ==
  /\ generation_in_progress = [c \in Categories |-> FALSE]
  /\ paper_details_collection = << >>
  /\ run = [r \in Runs |-> NoRun]
  /\ proc = [r \in Runs |-> [c \in Categories |-> NoProc]]
  /\ semaphore = [r \in Runs |-> SemaphoreLimit]
  /\ last = [c \in Categories |-> [cands |-> << >>, clean |-> FALSE, stored |-> FALSE]]
  /\ reqs = [q \in Reqs |-> NoReq]
  /\ rank = NoRank
  /\ reads = NoRead
  /\ categories = Categories
  /\ download = NoDownload
  /\ fetchcall = NoFetch
  /\ slugcall = NoSlug
  /\ seen = [c \in Categories |-> FALSE]

NextCap ==
  \/ generate_summaries(1, "cs.CV", 1)
  \/ generate_summaries(2, NoCategory, 1)
  \/ \E r \in Runs : run_fetch(r)
  \/ \E r \in Runs, c \in Categories : process_category_find_error(r, c)
  \/ \E r \in Runs, c \in Categories : process_category_rank(r, c)
  \/ \E r \in Runs, c \in Categories : score_return(r, c)
  \/ \E r \in Runs, c \in Categories, i \in 1..MaxCand : enrich_raise(r, c, i)
  \/ \E r \in Runs, c \in Categories : process_category_return(r, c)
  \/ \E r \in Runs : run_return(r)

SpecCap == InitCap /\ [][NextCap]_vars

\* ------------------------------------------------------------------------
\* process_category_with_semaphore called on its own: one partition with any
\* candidate list of its category, the same document more than once
\* included, over a store that is empty or holds a record of an earlier day
\* ------------------------------------------------------------------------
Yesterday == "d0"
RECURSIVE ListsUpTo(_, _)
ListsUpTo(S, n) ==
  IF n = 0 THEN {<< >>}
  ELSE ListsUpTo(S, n - 1)
         \cup {Append(l, x) : l \in {k \in ListsUpTo(S, n - 1) : Len(k) = n - 1}, x \in S}
CandidateLists(cat) == ListsUpTo(InCategory(cat), MaxCand)
EarlierStores == {<< >>, <<Doc("p1", "cs.LG", Yesterday)>>}

InitProcessor ==
  /\ generation_in_progress = [c \in Categories |-> FALSE]
  /\ \E coll \in EarlierStores : paper_details_collection = coll
  /\ \E cat \in TwoCategories, m \in MaxPapersValues :
       /\ run = [r \in Runs |->
            IF r = 1
            THEN [NoRun EXCEPT !.pc = "gathering", !.checked = {cat},
                               !.cats = {cat}, !.max_papers = m]
            ELSE NoRun]
       /\ \E papers \in CandidateLists(cat) :
            proc = [r \in Runs |-> [c \in Categories |->
              IF r = 1 /\ c = cat
              THEN [NoProc EXCEPT !.pc = "waiting", !.fetch = "ok", !.papers = papers]
              ELSE NoProc]]
  /\ semaphore = [r \in Runs |-> SemaphoreLimit]
  /\ last = [c \in Categories |-> [cands |-> << >>, clean |-> FALSE, stored |-> FALSE]]
  /\ reqs = [q \in Reqs |-> NoReq]
  /\ rank = NoRank
  /\ reads = NoRead
  /\ categories = TwoCategories
  /\ download = NoDownload
  /\ fetchcall = NoFetch
  /\ slugcall = NoSlug
  /\ seen = [c \in Categories |-> FALSE]

NextProcessor ==
  \/ \E r \in Runs, c \in Categories : process_category_empty(r, c)
  \/ \E r \in Runs, c \in Categories : process_category_find_error(r, c)
  \/ \E r \in Runs, c \in Categories : process_category_deduped(r, c)
  \/ \E r \in Runs, c \in Categories : process_category_rank(r, c)
  \/ \E r \in Runs, c \in Categories : score_return(r, c)
  \/ \E r \in Runs, c \in Categories : score_return_unusable(r, c)
  \/ \E r \in Runs, c \in Categories, i \in 1..MaxCand : enrich(r, c, i)
  \/ \E r \in Runs, c \in Categories, i \in 1..MaxCand : enrich_oracle_failed(r, c, i)
  \/ \E r \in Runs, c \in Categories, i \in 1..MaxCand : enrich_download_failed(r, c, i)
  \/ \E r \in Runs, c \in Categories, i \in 1..MaxCand : enrich_untitled(r, c, i)
  \/ \E r \in Runs, c \in Categories, i \in 1..MaxCand : enrich_no_id(r, c, i)
  \/ \E r \in Runs, c \in Categories, i \in 1..MaxCand : enrich_raise(r, c, i)
  \/ \E r \in Runs, c \in Categories, i \in 1..MaxCand : save_land(r, c, i)
  \/ \E r \in Runs, c \in Categories, i \in 1..MaxCand : save_error(r, c, i)
  \/ \E r \in Runs, c \in Categories, i \in 1..MaxCand : save_resume(r, c, i)
  \/ \E r \in Runs, c \in Categories : process_category_return(r, c)
  \/ \E r \in Runs : run_return(r)

SpecProcessor == InitProcessor /\ [][NextProcessor]_vars

\* ------------------------------------------------------------------------
\* The same, with detailed_paper_summary split at the awaits of
\* extract_pdf_text: the download in the executor, then the block under
\* "async with asyncio.Lock()", which awaits the gather over the pages.  The
\* lock is constructed by the call that enters it, so it is free whenever it
\* is acquired and entering the block waits for nobody.
\* ------------------------------------------------------------------------
WorkerUnchanged ==
  UNCHANGED <<generation_in_progress, paper_details_collection, run,
              semaphore, last, reqs, rank, reads, categories, download, fetchcall, slugcall, seen>>

\* paper.download_pdf returns: the worker makes its lock, enters the block,
\* opens the file and awaits the page tasks inside it
pdf_download_return(r, cat, i) ==
  /\ WorkerAt(r, cat, i, "dispatched")
  /\ SetWorker(r, cat, i, "reading")
  /\ WorkerUnchanged

\* paper.download_pdf raises: the except clause returns ""
pdf_download_error(r, cat, i) ==
  /\ WorkerAt(r, cat, i, "dispatched")
  /\ SetWorker(r, cat, i, "extracted")
  /\ WorkerUnchanged

\* the page tasks are done (or one raised): the block is left, the lock is
\* released and extract_pdf_text returns the text (or "")
pdf_read_return(r, cat, i) ==
  /\ WorkerAt(r, cat, i, "reading")
  /\ SetWorker(r, cat, i, "extracted")
  /\ WorkerUnchanged

\* the oracle call of detailed_paper_summary returns, the document is built
\* and update_one is handed to the executor
enrich_extracted(r, cat, i) ==
  /\ WorkerAt(r, cat, i, "extracted")
  /\ Enriched(r, cat, i, "saving")
  /\ WorkerUnchanged

\* detailed_paper_summary raises after the extraction: except clause, return None
enrich_extracted_raise(r, cat, i) ==
  /\ WorkerAt(r, cat, i, "extracted")
  /\ Enriched(r, cat, i, "dropped")
  /\ WorkerUnchanged

NextPdf ==
  \/ \E r \in Runs, c \in Categories : process_category_deduped(r, c)
  \/ \E r \in Runs, c \in Categories : process_category_rank(r, c)
  \/ \E r \in Runs, c \in Categories : score_return(r, c)
  \/ \E r \in Runs, c \in Categories, i \in 1..MaxCand : pdf_download_return(r, c, i)
  \/ \E r \in Runs, c \in Categories, i \in 1..MaxCand : pdf_download_error(r, c, i)
  \/ \E r \in Runs, c \in Categories, i \in 1..MaxCand : pdf_read_return(r, c, i)
  \/ \E r \in Runs, c \in Categories, i \in 1..MaxCand : enrich_extracted(r, c, i)
  \/ \E r \in Runs, c \in Categories, i \in 1..MaxCand : enrich_extracted_raise(r, c, i)
  \/ \E r \in Runs, c \in Categories, i \in 1..MaxCand : save_land(r, c, i)
  \/ \E r \in Runs, c \in Categories, i \in 1..MaxCand : save_error(r, c, i)
  \/ \E r \in Runs, c \in Categories, i \in 1..MaxCand : save_resume(r, c, i)
  \/ \E r \in Runs, c \in Categories : process_category_return(r, c)
  \/ \E r \in Runs : run_return(r)

SpecPdf == InitProcessor /\ [][NextPdf]_vars

\* ------------------------------------------------------------------------
\* POST /api/fetch-arxiv-paper (kind "fetch") and POST /api/pdf-analysis/{id}
\* (kind "pdf").  Every store call is awaited in the executor, so the lookup,
\* the insert and the update are separate steps.
\* ------------------------------------------------------------------------
NextReq(q) == reqs[q].pc = "unused" /\ \A p \in Reqs : p < q => reqs[p].pc # "unused"

\* categories[0] of the catalog entry
PrimaryCategory(id) ==
  LET i == CHOOSE j \in DOMAIN Catalog : Catalog[j].entry_id = id
  IN Catalog[i].primary

Answer(q, code) == reqs' = [reqs EXCEPT ![q].pc = "done", ![q].status = code]
Goto(q, pc) == reqs' = [reqs EXCEPT ![q].pc = pc]

BatchUnchanged == UNCHANGED <<generation_in_progress, run, proc, semaphore, last, rank, reads, categories, download, fetchcall, slugcall, seen>>

\* the request arrives and find_one({"arxiv_id": arxiv_id}) is handed to the executor
ondemand_request(q, kind, id) ==
  /\ NextReq(q)
  /\ reqs' = [reqs EXCEPT ![q] = [NoReq EXCEPT !.pc = "find", !.kind = kind, !.arxiv_id = id]]
  /\ UNCHANGED paper_details_collection
  /\ BatchUnchanged

\* POST /api/fetch-arxiv-paper with a body that has no arxiv_id:
\* HTTPException(400), re-raised by "except HTTPException: raise"
fetch_request_no_id(q) ==
  /\ NextReq(q)
  /\ reqs' = [reqs EXCEPT ![q] = [NoReq EXCEPT !.pc = "done", !.kind = "fetch",
                                              !.arxiv_id = None, !.status = 400]]
  /\ UNCHANGED paper_details_collection
  /\ BatchUnchanged

\* variant: a record that is found is fetched and summarized again
find_return_found_Refetches(q) ==
  /\ reqs[q].pc = "find"
  /\ find_one(paper_details_collection, reqs[q].arxiv_id) # 0
  /\ reqs' = [reqs EXCEPT ![q].pc = "summarize", ![q].hit = TRUE,
                          ![q].searches = @ + 1, ![q].summaries = @ + 1]
  /\ UNCHANGED paper_details_collection
  /\ BatchUnchanged

\* the lookup finds a document
find_return_found(q) ==
  /\ reqs[q].pc = "find"
  /\ LET i == find_one(paper_details_collection, reqs[q].arxiv_id) IN
       /\ i # 0
       /\ IF reqs[q].kind = "pdf" /\ ~paper_details_collection[i].pdf_analysis
          THEN reqs' = [reqs EXCEPT ![q].pc = "analyze", ![q].hit = TRUE]
          ELSE reqs' = [reqs EXCEPT ![q].pc = "done", ![q].status = 200, ![q].hit = TRUE]
  /\ UNCHANGED paper_details_collection
  /\ BatchUnchanged

\* the lookup finds nothing and the catalog has the paper: the summary is awaited
find_return_missing(q) ==
  /\ reqs[q].pc = "find"
  /\ find_one(paper_details_collection, reqs[q].arxiv_id) = 0
  /\ reqs' = [reqs EXCEPT ![q].pc = "summarize",
                          ![q].searches = @ + 1, ![q].summaries = @ + 1]
  /\ UNCHANGED paper_details_collection
  /\ BatchUnchanged

\* the lookup finds nothing and the catalog search returns no paper:
\* HTTPException(404), re-raised by "except HTTPException: raise"
find_return_not_in_catalog(q) ==
  /\ reqs[q].pc = "find"
  /\ find_one(paper_details_collection, reqs[q].arxiv_id) = 0
  /\ reqs' = [reqs EXCEPT ![q].pc = "done", ![q].status = 404, ![q].searches = @ + 1]
  /\ UNCHANGED paper_details_collection
  /\ BatchUnchanged

\* the lookup raises: fetch answers 500, pdf goes on without the store
find_error(q) ==
  /\ reqs[q].pc = "find"
  /\ IF reqs[q].kind = "pdf"
     THEN reqs' = [reqs EXCEPT ![q].pc = "summarize", ![q].use_mongodb = FALSE,
                              ![q].searches = @ + 1, ![q].summaries = @ + 1]
     ELSE Answer(q, 500)
  /\ UNCHANGED paper_details_collection
  /\ BatchUnchanged

\* generate_paper_summary returns; insert_one(paper_doc) is handed to the executor
summary_return(q) ==
  /\ reqs[q].pc = "summarize"
  /\ Goto(q, IF reqs[q].use_mongodb THEN "insert" ELSE "analyze")
  /\ UNCHANGED paper_details_collection
  /\ BatchUnchanged

\* insert_one is applied
insert_done(q) ==
  /\ reqs[q].pc = "insert"
  /\ paper_details_collection' =
       insert_one(paper_details_collection,
                  Doc(reqs[q].arxiv_id, PrimaryCategory(reqs[q].arxiv_id), Today))
  /\ reqs' = [reqs EXCEPT ![q].writes = @ + 1,
                          ![q].pc = IF reqs[q].kind = "pdf" THEN "analyze" ELSE "done",
                          ![q].status = IF reqs[q].kind = "pdf" THEN @ ELSE 200]
  /\ BatchUnchanged

\* insert_one raises: fetch answers 500, pdf logs and goes on
insert_error(q) ==
  /\ reqs[q].pc = "insert"
  /\ IF reqs[q].kind = "pdf" THEN Goto(q, "analyze") ELSE Answer(q, 500)
  /\ UNCHANGED paper_details_collection
  /\ BatchUnchanged

\* download_and_analyze_pdf and generate_pdf_summary return; update_one is
\* handed to the executor
analyze_return(q) ==
  /\ reqs[q].pc = "analyze"
  /\ IF reqs[q].use_mongodb THEN Goto(q, "update") ELSE Answer(q, 200)
  /\ UNCHANGED paper_details_collection
  /\ BatchUnchanged

\* the download or the summary raises
analyze_error(q) ==
  /\ reqs[q].pc = "analyze"
  /\ Answer(q, 500)
  /\ UNCHANGED paper_details_collection
  /\ BatchUnchanged

\* update_one({"arxiv_id": arxiv_id}, {"$set": {"pdf_analysis": ...}}) is applied
update_done(q) ==
  /\ reqs[q].pc = "update"
  /\ paper_details_collection' =
       update_one(paper_details_collection, reqs[q].arxiv_id,
                  [pdf_analysis |-> TRUE], FALSE)
  /\ reqs' = [reqs EXCEPT ![q].pc = "done", ![q].status = 200, ![q].writes = @ + 1]
  /\ BatchUnchanged

\* update_one raises: logged, the analysis is still returned
update_error(q) ==
  /\ reqs[q].pc = "update"
  /\ Answer(q, 200)
  /\ UNCHANGED paper_details_collection
  /\ BatchUnchanged

NextOnDemand ==
  \/ \E q \in Reqs, kind \in {"fetch", "pdf"}, id \in PaperIds : ondemand_request(q, kind, id)
  \/ \E q \in Reqs : fetch_request_no_id(q)
  \/ \E q \in Reqs : find_return_found(q)
  \/ \E q \in Reqs : find_return_missing(q)
  \/ \E q \in Reqs : find_return_not_in_catalog(q)
  \/ \E q \in Reqs : find_error(q)
  \/ \E q \in Reqs : summary_return(q)
  \/ \E q \in Reqs : insert_done(q)
  \/ \E q \in Reqs : insert_error(q)
  \/ \E q \in Reqs : analyze_return(q)
  \/ \E q \in Reqs : analyze_error(q)
  \/ \E q \in Reqs : update_done(q)
  \/ \E q \in Reqs : update_error(q)

SpecOnDemand == Init /\ [][NextOnDemand]_vars

\* ------------------------------------------------------------------------
\* Every writer of the store side by side: one orchestrator run for cs.LG, a
\* POST /api/fetch-arxiv-paper and a POST /api/pdf-analysis/{id}, both for
\* ids that the run can store
\* ------------------------------------------------------------------------
NextStore ==
  \/ \E m \in MaxPapersValues : generate_summaries(1, "cs.LG", m)
  \/ \E r \in Runs : run_fetch(r)
  \/ \E r \in Runs, c \in Categories : process_category_deduped(r, c)
  \/ \E r \in Runs, c \in Categories : process_category_rank(r, c)
  \/ \E r \in Runs, c \in Categories : score_return(r, c)
  \/ \E r \in Runs, c \in Categories, i \in 1..MaxCand : enrich(r, c, i)
  \/ \E r \in Runs, c \in Categories, i \in 1..MaxCand : enrich_raise(r, c, i)
  \/ \E r \in Runs, c \in Categories, i \in 1..MaxCand : save_land(r, c, i)
  \/ \E r \in Runs, c \in Categories, i \in 1..MaxCand : save_resume(r, c, i)
  \/ \E r \in Runs, c \in Categories : process_category_return(r, c)
  \/ \E r \in Runs : run_return(r)
  \/ \E id \in InCategory("cs.LG") : ondemand_request(1, "fetch", id)
  \/ \E id \in InCategory("cs.LG") : ondemand_request(2, "pdf", id)
  \/ \E q \in Reqs : find_return_found(q)
  \/ \E q \in Reqs : find_return_missing(q)
  \/ \E q \in Reqs : find_return_not_in_catalog(q)
  \/ \E q \in Reqs : find_error(q)
  \/ \E q \in Reqs : summary_return(q)
  \/ \E q \in Reqs : insert_done(q)
  \/ \E q \in Reqs : insert_error(q)
  \/ \E q \in Reqs : analyze_return(q)
  \/ \E q \in Reqs : analyze_error(q)
  \/ \E q \in Reqs : update_done(q)
  \/ \E q \in Reqs : update_error(q)

SpecStore == Init /\ [][NextStore]_vars

\* ------------------------------------------------------------------------
\* The read endpoints: GET /api/generation-status (kind "status"),
\* /api/categories ("categories"), /api/category/{slug} ("category"),
\* /api/papers ("papers") and /api/blog/{slug} ("blog").  Every store call is
\* awaited in the executor, so a handler is one step per store call.
\* ------------------------------------------------------------------------
\* the keys of the category table in the order of the dict
CategoryOrder == <<"cs.LG", "cs.CL", "cs.CV", "stat.ML">>
CategoriesInOrder(category) ==
  IF category = NoCategory
  THEN SelectSeq(CategoryOrder, LAMBDA c : c \in categories)
  ELSE <<category>>

\* every key of the query is in the document with that value
Matches(doc, query) == \A k \in DOMAIN query : doc[k] = query[k]
count_documents(coll, query) ==
  Cardinality({i \in DOMAIN coll : Matches(coll[i], query)})
find_matching(coll, query) == SelectSeq(coll, LAMBDA d : Matches(d, query))

\* the query of /api/category/{slug} and of /api/papers for a category (the
\* slug of a category stands for its code) and an optional date
CategoryQuery(cat, date) ==
  IF date = "none" THEN [category_code |-> cat]
  ELSE [category_code |-> cat, processed_date |-> date]

\* variant: records of today win over the flag
StatusOf_CompletedFirst(is_generating, existing_count) ==
  IF existing_count > 0 THEN "completed"
  ELSE IF is_generating THEN "in_progress"
  ELSE "not_started"

\* "in_progress" if is_generating else "completed" if existing_count > 0
\* else "not_started"
StatusOf(is_generating, existing_count) ==
  IF is_generating THEN "in_progress"
  ELSE IF existing_count > 0 THEN "completed"
  ELSE "not_started"

\* variant: the read clears the flag of the key it looks at
ReadOnly_ClearsFlag ==
  /\ generation_in_progress' =
       IF reads.cat \in Categories
       THEN ClearFlag(generation_in_progress, reads.cat)
       ELSE generation_in_progress
  /\ UNCHANGED <<paper_details_collection, run, proc, semaphore, last, reqs,
                 rank, categories, download, fetchcall, slugcall>>

\* what a step of a read handler leaves alone
ReadOnly ==
  UNCHANGED <<generation_in_progress, paper_details_collection, run, proc,
              semaphore, last, reqs, rank, categories, download, fetchcall, slugcall>>

\* get_generation_status up to the first await: the flag of the first key is
\* read and the count of today's records is handed to the executor
status_request(category) ==
  /\ reads.pc = "unused"
  /\ LET order == CategoriesInOrder(category) IN
       reads' = [NoRead EXCEPT
         !.pc = "count_today", !.kind = "status",
         !.cat = Head(order), !.todo = Tail(order),
         !.is_generating = generation_in_progress[Head(order)]]
  /\ seen' = Observed(TRUE, generation_in_progress, paper_details_collection)
  /\ ReadOnly

\* existing_count is back; the total count is handed to the executor
status_count_today_return ==
  /\ reads.kind = "status"
  /\ reads.pc = "count_today"
  /\ reads' = [reads EXCEPT
       !.pc = "count_total",
       !.existing_count =
         count_documents(paper_details_collection, CategoryQuery(reads.cat, Today))]
  /\ UNCHANGED seen
  /\ ReadOnly

\* total_papers is back: status_info[cat] is filled in, then the loop goes on
\* to the next key (reads its flag, hands the count over) or the handler
\* returns
status_count_total_return ==
  /\ reads.kind = "status"
  /\ reads.pc = "count_total"
  /\ LET info == [c \in DOMAIN reads.status_info \cup {reads.cat} |->
                    IF c = reads.cat
                    THEN StatusOf(reads.is_generating, reads.existing_count)
                    ELSE reads.status_info[c]]
     IN IF reads.todo = << >>
        THEN reads' = [reads EXCEPT !.pc = "done", !.code = 200, !.status_info = info]
        ELSE reads' = [reads EXCEPT
               !.pc = "count_today", !.status_info = info,
               !.cat = Head(reads.todo), !.todo = Tail(reads.todo),
               !.is_generating = generation_in_progress[Head(reads.todo)]]
  /\ UNCHANGED seen
  /\ ReadOnly

\* get_categories up to the first await
categories_request ==
  /\ reads.pc = "unused"
  /\ LET order == CategoriesInOrder(NoCategory) IN
       reads' = [NoRead EXCEPT
         !.pc = "count", !.kind = "categories",
         !.cat = Head(order), !.todo = Tail(order)]
  /\ UNCHANGED seen
  /\ ReadOnly

\* paper_count of one category is back; the next count is handed over or the
\* handler returns
categories_count_return ==
  /\ reads.kind = "categories"
  /\ reads.pc = "count"
  /\ LET n == count_documents(paper_details_collection, CategoryQuery(reads.cat, "none"))
     IN IF reads.todo = << >>
        THEN reads' = [reads EXCEPT !.pc = "done", !.code = 200, !.total = @ + n]
        ELSE reads' = [reads EXCEPT
               !.total = @ + n,
               !.cat = Head(reads.todo), !.todo = Tail(reads.todo)]
  /\ UNCHANGED seen
  /\ ReadOnly

\* valid_sort_fields
ValidSortFields == {"published_date", "title", "generation_date"}
\* values of the sort_by query parameter that the requests use
SortByValues == {"published_date", "title", "rating"}

\* variant: the parameter is used as it came
SortBy_PassThrough(sort_by) == sort_by

\* if sort_by not in valid_sort_fields: sort_by = "published_date"
SortBy(sort_by) ==
  IF sort_by \notin ValidSortFields THEN "published_date" ELSE sort_by

\* get_papers_by_category (date optional, sorted by published_date) and
\* get_papers (date defaults to today) up to the first await; asked is the
\* sort_by parameter as it came, sort_by the field that is handed to
\* find(query).sort and that the response of get_papers echoes
query_request(kind, category, date, sort_by) ==
  /\ reads.pc = "unused"
  /\ reads' = [NoRead EXCEPT
       !.pc = "count", !.kind = kind, !.cat = category,
       !.todo = <<IF kind = "papers" /\ date = "none" THEN Today ELSE date>>,
       !.asked = sort_by,
       !.sort_by = IF kind = "papers" THEN SortBy(sort_by) ELSE "published_date"]
  /\ UNCHANGED seen
  /\ ReadOnly

\* total_count is back; find(query) is handed to the executor
query_count_return ==
  /\ reads.kind \in {"category", "papers"}
  /\ reads.pc = "count"
  /\ reads' = [reads EXCEPT
       !.pc = "find",
       !.total = count_documents(paper_details_collection,
                                 CategoryQuery(reads.cat, reads.todo[1]))]
  /\ UNCHANGED seen
  /\ ReadOnly

\* the page of papers is back: the handler returns
query_find_return ==
  /\ reads.kind \in {"category", "papers"}
  /\ reads.pc = "find"
  /\ reads' = [reads EXCEPT
       !.pc = "done", !.code = 200,
       !.papers = find_matching(paper_details_collection,
                                CategoryQuery(reads.cat, reads.todo[1]))]
  /\ UNCHANGED seen
  /\ ReadOnly

\* get_paper_by_slug up to its await (the slug of a paper stands for its id)
blog_request(id) ==
  /\ reads.pc = "unused"
  /\ reads' = [NoRead EXCEPT !.pc = "find", !.kind = "blog", !.cat = id]
  /\ UNCHANGED seen
  /\ ReadOnly

\* find_one is back: the paper, or HTTPException(404) raised inside the try
\* block, which `except Exception` turns into a 500
blog_find_return ==
  /\ reads.kind = "blog"
  /\ reads.pc = "find"
  /\ LET i == find_one(paper_details_collection, reads.cat) IN
       reads' = [reads EXCEPT
         !.pc = "done",
         !.code = IF i = 0 THEN 500 ELSE 200,
         !.papers = IF i = 0 THEN << >> ELSE <<paper_details_collection[i]>>]
  /\ UNCHANGED seen
  /\ ReadOnly

\* a store call of a read handler raises: 500
read_error ==
  /\ reads.pc \in {"count_today", "count_total", "count", "find"}
  /\ reads' = [reads EXCEPT !.pc = "done", !.code = 500, !.error = TRUE]
  /\ UNCHANGED seen
  /\ ReadOnly

\* one orchestrator run and one read request
NextRead ==
  \/ \E category \in categories \cup {NoCategory}, m \in MaxPapersValues :
       generate_summaries(1, category, m)
  \/ \E r \in Runs : run_fetch(r)
  \/ \E r \in Runs, c \in Categories : process_category_find_error(r, c)
  \/ \E r \in Runs, c \in Categories : process_category_deduped(r, c)
  \/ \E r \in Runs, c \in Categories : process_category_rank(r, c)
  \/ \E r \in Runs, c \in Categories : score_return(r, c)
  \/ \E r \in Runs, c \in Categories, i \in 1..MaxCand : enrich(r, c, i)
  \/ \E r \in Runs, c \in Categories, i \in 1..MaxCand : enrich_raise(r, c, i)
  \/ \E r \in Runs, c \in Categories, i \in 1..MaxCand : save_land(r, c, i)
  \/ \E r \in Runs, c \in Categories, i \in 1..MaxCand : save_error(r, c, i)
  \/ \E r \in Runs, c \in Categories, i \in 1..MaxCand : save_resume(r, c, i)
  \/ \E r \in Runs, c \in Categories : process_category_return(r, c)
  \/ \E r \in Runs : run_return(r)
  \/ \E category \in categories \cup {NoCategory} : status_request(category)
  \/ status_count_today_return
  \/ status_count_total_return
  \/ categories_request
  \/ categories_count_return
  \/ \E category \in categories, date \in {"none", Today} :
       query_request("category", category, date, "published_date")
  \/ \E category \in categories, date \in {"none", Today}, sort_by \in SortByValues :
       query_request("papers", category, date, sort_by)
  \/ query_count_return
  \/ query_find_return
  \/ \E id \in PaperIds : blog_request(id)
  \/ blog_find_return
  \/ read_error

SpecRead == Init /\ [][NextRead]_vars

\* ------------------------------------------------------------------------
\* GET /api/generate failing part of the way through its loop.  The loop goes
\* through the keys in table order; the lookup of the k-th key raises after
\* the keys before it were handled, and the except clause sets the flag of
\* every key in categories_to_process to False before it answers 500.  The
\* lookup is only made for a key that is not generating.  run[r].cats keeps
\* categories_to_process as it was when the lookup raised.
\* ------------------------------------------------------------------------
FlagsSet(flags, cats) ==
  [c \in Categories |-> IF c \in cats THEN SetFlag(flags, c)[c] ELSE flags[c]]
FlagsCleared(flags, cats) ==
  [c \in Categories |-> IF c \in cats THEN ClearFlag(flags, c)[c] ELSE flags[c]]

\* categories_to_process when the lookup of the k-th key is made
SelectedBefore(category, k) ==
  {c \in {CategoriesInOrder(category)[j] : j \in 1..(k - 1)} :
     NeedsGeneration(generation_in_progress, paper_details_collection, c)}

\* variant: the except clause answers 500 without clearing the flags
generate_summaries_fails_KeepsFlags(r, category, k) ==
  /\ NextRun(r)
  /\ k \in DOMAIN CategoriesInOrder(category)
  /\ ~generation_in_progress[CategoriesInOrder(category)[k]]
  /\ generation_in_progress' =
       FlagsSet(generation_in_progress, SelectedBefore(category, k))
  /\ run' = [run EXCEPT ![r] =
       [NoRun EXCEPT !.pc = "failed", !.checked = CategoriesToCheck(category),
                     !.cats = SelectedBefore(category, k)]]
  /\ UNCHANGED <<paper_details_collection, proc, semaphore, last, reqs, rank, reads,
                 categories, download, fetchcall, slugcall, seen>>

generate_summaries_fails(r, category, k) ==
  /\ NextRun(r)
  /\ k \in DOMAIN CategoriesInOrder(category)
  /\ ~generation_in_progress[CategoriesInOrder(category)[k]]
  /\ generation_in_progress' =
       FlagsCleared(FlagsSet(generation_in_progress, SelectedBefore(category, k)),
                    SelectedBefore(category, k))
  /\ run' = [run EXCEPT ![r] =
       [NoRun EXCEPT !.pc = "failed", !.checked = CategoriesToCheck(category),
                     !.cats = SelectedBefore(category, k)]]
  /\ UNCHANGED <<paper_details_collection, proc, semaphore, last, reqs, rank, reads,
                 categories, download, fetchcall, slugcall, seen>>

\* a request for cs.CL, then a request for every key of the four-key table
\* that goes through or fails, while the enrichment oracle is down
NextGenerate ==
  \/ generate_summaries(1, "cs.CL", 1)
  \/ generate_summaries(2, NoCategory, 1)
  \/ \E k \in 1..Cardinality(Categories) : generate_summaries_fails(2, NoCategory, k)
  \/ \E r \in Runs : run_fetch(r)
  \/ \E r \in Runs, c \in Categories : process_category_find_error(r, c)
  \/ \E r \in Runs, c \in Categories : process_category_rank(r, c)
  \/ \E r \in Runs, c \in Categories : score_return(r, c)
  \/ \E r \in Runs, c \in Categories, i \in 1..MaxCand : enrich_raise(r, c, i)
  \/ \E r \in Runs, c \in Categories : process_category_return(r, c)
  \/ \E r \in Runs : run_return(r)

SpecGenerate == InitCap /\ [][NextGenerate]_vars

\* ------------------------------------------------------------------------
\* run_arxiv_summarizer_async failing before its fetch loop: ArxivFetcher()
\* or LLMSummarizer(api_key) raises (no API key is configured), the outer
\* except clause sets the flag of every key in categories_to_process to False
\* and returns []
\* ------------------------------------------------------------------------
\* variant: the except clause returns [] and leaves the flags
run_setup_fails_KeepsFlags(r) ==
  /\ run[r].pc = "scheduled"
  /\ run' = [run EXCEPT ![r].pc = "returned", ![r].result = << >>, ![r].error = "setup"]
  /\ UNCHANGED <<generation_in_progress, paper_details_collection, proc, semaphore,
                 last, reqs, rank, reads, categories, download, fetchcall, slugcall, seen>>

run_setup_fails(r) ==
  /\ run[r].pc = "scheduled"
  /\ generation_in_progress' = FlagsCleared(generation_in_progress, run[r].cats)
  /\ run' = [run EXCEPT ![r].pc = "returned", ![r].result = << >>, ![r].error = "setup"]
  /\ seen' = Observed(StatusRequestOpen, generation_in_progress', paper_details_collection)
  /\ UNCHANGED <<paper_details_collection, proc, semaphore, last, reqs, rank, reads,
                 categories, download, fetchcall, slugcall>>

\* two requests whose runs go through or fail at setup, while the enrichment
\* oracle is down
NextSetup ==
  \/ \E r \in Runs, category \in categories \cup {NoCategory}, m \in MaxPapersValues :
       generate_summaries(r, category, m)
  \/ \E r \in Runs : run_setup_fails(r)
  \/ \E r \in Runs : run_fetch(r)
  \/ \E r \in Runs, c \in Categories : process_category_find_error(r, c)
  \/ \E r \in Runs, c \in Categories : process_category_rank(r, c)
  \/ \E r \in Runs, c \in Categories : score_return(r, c)
  \/ \E r \in Runs, c \in Categories, i \in 1..MaxCand : enrich_raise(r, c, i)
  \/ \E r \in Runs, c \in Categories : process_category_return(r, c)
  \/ \E r \in Runs : run_return(r)

SpecSetup == Init /\ [][NextSetup]_vars

\* ------------------------------------------------------------------------
\* Termination of a run, from the point where its fetch loop is over and the
\* partitions are handed to gather: a run for every key of the four-key
\* table, each partition with the documents of its category, so that one
\* partition has to wait for a permit, with every outcome of a partition and
\* of a worker.  The event loop runs a task that is ready and every oracle
\* and store call returns or raises, so a step of the run is taken whenever
\* one is possible.
\* ------------------------------------------------------------------------
InitLive ==
  /\ generation_in_progress = [c \in Categories |-> TRUE]
  /\ paper_details_collection = << >>
  /\ run = [r \in Runs |->
       IF r = 1
       THEN [NoRun EXCEPT !.pc = "gathering", !.checked = Categories,
                          !.cats = Categories, !.max_papers = 1]
       ELSE NoRun]
  /\ proc = [r \in Runs |-> [c \in Categories |->
       IF r = 1
       THEN [NoProc EXCEPT !.pc = "waiting", !.fetch = "ok",
                           !.papers = SelectSeq(CatalogIds, LAMBDA p : p \in InCategory(c))]
       ELSE NoProc]]
  /\ semaphore = [r \in Runs |-> SemaphoreLimit]
  /\ last = [c \in Categories |-> [cands |-> << >>, clean |-> FALSE, stored |-> FALSE]]
  /\ reqs = [q \in Reqs |-> NoReq]
  /\ rank = NoRank
  /\ reads = NoRead
  /\ categories = Categories
  /\ download = NoDownload
  /\ fetchcall = NoFetch
  /\ slugcall = NoSlug
  /\ seen = [c \in Categories |-> FALSE]

NextLive ==
  \/ \E r \in Runs, c \in Categories : process_category_find_error(r, c)
  \/ \E r \in Runs, c \in Categories : process_category_deduped(r, c)
  \/ \E r \in Runs, c \in Categories : process_category_rank(r, c)
  \/ \E r \in Runs, c \in Categories : score_return(r, c)
  \/ \E r \in Runs, c \in Categories, i \in 1..MaxCand : enrich(r, c, i)
  \/ \E r \in Runs, c \in Categories, i \in 1..MaxCand : enrich_raise(r, c, i)
  \/ \E r \in Runs, c \in Categories, i \in 1..MaxCand : save_land(r, c, i)
  \/ \E r \in Runs, c \in Categories, i \in 1..MaxCand : save_error(r, c, i)
  \/ \E r \in Runs, c \in Categories, i \in 1..MaxCand : save_resume(r, c, i)
  \/ \E r \in Runs, c \in Categories : process_category_return(r, c)
  \/ \E r \in Runs : run_return(r)

SpecLive == InitLive /\ [][NextLive]_vars /\ WF_vars(NextLive)

\* ------------------------------------------------------------------------
\* score_papers_by_title on its own: the candidates and top_k are drawn at
\* the start, the oracle's answer when the call returns
\* ------------------------------------------------------------------------
TopKValues == (0 - 1)..MaxCand

InitRank ==
  /\ generation_in_progress = [c \in Categories |-> FALSE]
  /\ paper_details_collection = << >>
  /\ run = [r \in Runs |-> NoRun]
  /\ proc = [r \in Runs |-> [c \in Categories |-> NoProc]]
  /\ semaphore = [r \in Runs |-> SemaphoreLimit]
  /\ last = [c \in Categories |-> [cands |-> << >>, clean |-> FALSE, stored |-> FALSE]]
  /\ reqs = [q \in Reqs |-> NoReq]
  /\ reads = NoRead
  /\ categories = TwoCategories
  /\ download = NoDownload
  /\ fetchcall = NoFetch
  /\ slugcall = NoSlug
  /\ seen = [c \in Categories |-> FALSE]
  /\ \E n \in 0..MaxCand, k \in TopKValues :
       rank = [NoRank EXCEPT !.pc = "called", !.papers = [i \in 1..n |-> i], !.top_k = k]

score_call(resp) ==
  /\ rank.pc = "called"
  /\ rank' = [rank EXCEPT
       !.pc = "done",
       !.resp = resp,
       !.scores = IF resp = OracleError \/ rank.papers = << >>
                  THEN << >> ELSE ParseScores(resp),
       !.selected = score_papers_by_title(rank.papers, rank.top_k, resp)]
  /\ UNCHANGED <<generation_in_progress, paper_details_collection, run, proc,
                 semaphore, last, reqs, reads, categories, download, fetchcall, slugcall, seen>>

NextRank ==
  \E resp \in Responses(Len(rank.papers)) \cup {OracleError} : score_call(resp)

SpecRank == InitRank /\ [][NextRank]_vars

\* ------------------------------------------------------------------------
\* slugify on its own.  A text is the sequence of its characters; the
\* alphabet has a lower-case letter, an upper-case letter, a digit, two
\* kinds of whitespace, the hyphen, a punctuation mark and U+0130, whose
\* lower() is the two characters "i" and U+0307.
\* ------------------------------------------------------------------------
Whitespace == {" ", "TAB"}
Alphabet == {"a", "B", "7", "-", "!", "U+0130"} \cup Whitespace
\* the class [a-z0-9\-] over the characters that lower() can produce here
SlugChars == {"a", "b", "i", "7", "-"}

\* str.lower() of one character
LowerChar(c) ==
  CASE c = "B" -> <<"b">>
    [] c = "U+0130" -> <<"i", "U+0307">>
    [] OTHER -> <<c>>

RECURSIVE Lower(_)
\* text.lower()
Lower(t) == IF t = << >> THEN << >> ELSE LowerChar(Head(t)) \o Lower(Tail(t))

RECURSIVE SubWhitespace(_)
\* re.sub(r'\s+', '-', text): every maximal run of whitespace becomes one "-"
SubWhitespace(t) ==
  IF t = << >> THEN << >>
  ELSE IF Head(t) \in Whitespace
       THEN IF Tail(t) # << >> /\ Head(Tail(t)) \in Whitespace
            THEN SubWhitespace(Tail(t))
            ELSE <<"-">> \o SubWhitespace(Tail(t))
       ELSE <<Head(t)>> \o SubWhitespace(Tail(t))

\* re.sub(r'[^a-z0-9\-]', '', text)
StripOthers(t) == SelectSeq(t, LAMBDA c : c \in SlugChars)

\* variant: runs of hyphens are left as they are
Collapse_Noop(t) == t

RECURSIVE Collapse(_)
\* re.sub(r'-+', '-', text)
Collapse(t) ==
  IF t = << >> THEN << >>
  ELSE IF Head(t) = "-" /\ Tail(t) # << >> /\ Head(Tail(t)) = "-"
       THEN Collapse(Tail(t))
       ELSE <<Head(t)>> \o Collapse(Tail(t))

RECURSIVE LStrip(_)
LStrip(t) == IF t # << >> /\ Head(t) = "-" THEN LStrip(Tail(t)) ELSE t
RECURSIVE RStrip(_)
RStrip(t) ==
  IF t # << >> /\ t[Len(t)] = "-" THEN RStrip(SubSeq(t, 1, Len(t) - 1)) ELSE t
\* text.strip('-')
Strip(t) == RStrip(LStrip(t))

slugify(text) == Strip(Collapse(StripOthers(SubWhitespace(Lower(text)))))

Texts == ListsUpTo(Alphabet, MaxLen)

InitSlug ==
  /\ generation_in_progress = [c \in Categories |-> FALSE]
  /\ paper_details_collection = << >>
  /\ run = [r \in Runs |-> NoRun]
  /\ proc = [r \in Runs |-> [c \in Categories |-> NoProc]]
  /\ semaphore = [r \in Runs |-> SemaphoreLimit]
  /\ last = [c \in Categories |-> [cands |-> << >>, clean |-> FALSE, stored |-> FALSE]]
  /\ reqs = [q \in Reqs |-> NoReq]
  /\ rank = NoRank
  /\ reads = NoRead
  /\ categories = TwoCategories
  /\ download = NoDownload
  /\ fetchcall = NoFetch
  /\ seen = [c \in Categories |-> FALSE]
  /\ \E text \in Texts : slugcall = [NoSlug EXCEPT !.pc = "called", !.text = text]

\* slugify(text)
slugify_call ==
  /\ slugcall.pc = "called"
  /\ slugcall' = [slugcall EXCEPT !.pc = "done", !.slug = slugify(slugcall.text)]
  /\ UNCHANGED <<generation_in_progress, paper_details_collection, run, proc,
                 semaphore, last, reqs, rank, reads, categories, download, fetchcall, seen>>

\* slugify applied to the slug
slugify_again ==
  /\ slugcall.pc = "done"
  /\ slugcall' = [slugcall EXCEPT !.pc = "again", !.again = slugify(slugcall.slug)]
  /\ UNCHANGED <<generation_in_progress, paper_details_collection, run, proc,
                 semaphore, last, reqs, rank, reads, categories, download, fetchcall, seen>>

NextSlug ==
  \/ slugify_call
  \/ slugify_again

SpecSlug == InitSlug /\ [][NextSlug]_vars

\* ------------------------------------------------------------------------
\* fetch_papers_by_category called on its own, with the age in days of every
\* catalog document given: the loop keeps a document when
\* paper.published >= now - days_back, that is when its age is at most
\* days_back.  The catalog has fewer documents per category than the
\* max_results * 5 the search asks for, so the search itself cuts nothing.
\* ------------------------------------------------------------------------
AgeValues == {0, DaysBack, DaysBack + 1}
\* values of max_results the call is made with
MaxResultsValues == {1, 2}

\* the documents of the category that pass the date check, newest first
Recent(cat, age, days_back) ==
  SelectSeq(CatalogIds, LAMBDA p : p \in InCategory(cat) /\ age[p] <= days_back)

FetchUnchanged ==
  UNCHANGED <<generation_in_progress, paper_details_collection, run, proc,
              semaphore, last, reqs, rank, reads, categories, download, slugcall, seen>>

InitFetch ==
  /\ generation_in_progress = [c \in Categories |-> FALSE]
  /\ paper_details_collection = << >>
  /\ run = [r \in Runs |-> NoRun]
  /\ proc = [r \in Runs |-> [c \in Categories |-> NoProc]]
  /\ semaphore = [r \in Runs |-> SemaphoreLimit]
  /\ last = [c \in Categories |-> [cands |-> << >>, clean |-> FALSE, stored |-> FALSE]]
  /\ reqs = [q \in Reqs |-> NoReq]
  /\ rank = NoRank
  /\ reads = NoRead
  /\ categories = TwoCategories
  /\ download = NoDownload
  /\ slugcall = NoSlug
  /\ seen = [c \in Categories |-> FALSE]
  /\ \E cat \in TwoCategories, m \in MaxResultsValues, age \in [PaperIds -> AgeValues] :
       fetchcall = [NoFetch EXCEPT !.pc = "called", !.category = cat,
                                   !.max_results = m, !.age = age]

\* the loop over client.results(search) runs to its end or to its break
fetch_papers_return ==
  /\ fetchcall.pc = "called"
  /\ fetchcall' = [fetchcall EXCEPT
       !.pc = "returned",
       !.results = FetchLoop(Recent(fetchcall.category, fetchcall.age, DaysBack),
                             fetchcall.max_results)]
  /\ FetchUnchanged

\* the catalog request raises inside the try: except clause, return []
fetch_papers_request_fails ==
  /\ fetchcall.pc = "called"
  /\ fetchcall' = [fetchcall EXCEPT !.pc = "returned", !.failed = TRUE, !.results = << >>]
  /\ FetchUnchanged

NextFetch ==
  \/ fetch_papers_return
  \/ fetch_papers_request_fails

SpecFetch == InitFetch /\ [][NextFetch]_vars

\* ------------------------------------------------------------------------
\* download_and_analyze_pdf called on its own.  download.attempt is the loop
\* variable of "for attempt in range(max_retries)"; every urlopen attempt
\* leaves its outcome in download.log: "response" with the length of the
\* content it read, a network error, or "other" for any other exception.
\* ------------------------------------------------------------------------
NetworkErrors == {"URLError", "HTTPError", "TimeoutError"}
\* lengths of the downloaded content
ContentSizes == {0, MinPdfBytes - 1, MinPdfBytes, MinPdfBytes + 1}

Attempt(outcome, size) == [outcome |-> outcome, size |-> size]

DownloadUnchanged ==
  UNCHANGED <<generation_in_progress, paper_details_collection, run, proc,
              semaphore, last, reqs, rank, reads, categories, fetchcall, slugcall, seen>>

InitDownload ==
  /\ generation_in_progress = [c \in Categories |-> FALSE]
  /\ paper_details_collection = << >>
  /\ run = [r \in Runs |-> NoRun]
  /\ proc = [r \in Runs |-> [c \in Categories |-> NoProc]]
  /\ semaphore = [r \in Runs |-> SemaphoreLimit]
  /\ last = [c \in Categories |-> [cands |-> << >>, clean |-> FALSE, stored |-> FALSE]]
  /\ reqs = [q \in Reqs |-> NoReq]
  /\ rank = NoRank
  /\ reads = NoRead
  /\ categories = TwoCategories
  /\ fetchcall = NoFetch
  /\ slugcall = NoSlug
  /\ seen = [c \in Categories |-> FALSE]
  /\ download = [NoDownload EXCEPT !.pc = "called"]

\* os.makedirs and the Request are set up, the loop is entered
download_start ==
  /\ download.pc = "called"
  /\ download' = [download EXCEPT !.pc = "trying", !.attempt = 0]
  /\ DownloadUnchanged

\* os.makedirs raises: no attempt is made
download_setup_error ==
  /\ download.pc = "called"
  /\ download' = [download EXCEPT !.pc = "raised"]
  /\ DownloadUnchanged

\* urlopen answers and the content is read: too small raises a plain
\* Exception, which the except clause of the loop does not catch; otherwise
\* the file is written and the loop is left by break
download_response(size) ==
  /\ download.pc = "trying"
  /\ download' = [download EXCEPT
       !.log = Append(@, Attempt("response", size)),
       !.pc = IF size < MinPdfBytes THEN "raised" ELSE "extract"]
  /\ DownloadUnchanged

\* variant: a network error is always followed by another attempt
download_network_error_AlwaysRetries(kind) ==
  /\ download.pc = "trying"
  /\ download' = [download EXCEPT !.log = Append(@, Attempt(kind, 0)), !.attempt = @ + 1]
  /\ DownloadUnchanged

\* urlopen or read raises URLError, HTTPError or TimeoutError: sleep and go
\* round again while attempt < max_retries - 1, raise otherwise
download_network_error(kind) ==
  /\ download.pc = "trying"
  /\ download' =
       IF download.attempt < MaxRetries - 1
       THEN [download EXCEPT !.log = Append(@, Attempt(kind, 0)), !.attempt = @ + 1]
       ELSE [download EXCEPT !.log = Append(@, Attempt(kind, 0)), !.pc = "raised"]
  /\ DownloadUnchanged

\* any other exception of the attempt (reading, writing the file) leaves the loop
download_other_error ==
  /\ download.pc = "trying"
  /\ download' = [download EXCEPT !.log = Append(@, Attempt("other", 0)), !.pc = "raised"]
  /\ DownloadUnchanged

\* the text of at most 20 pages is extracted and the dictionary is returned
extract_return ==
  /\ download.pc = "extract"
  /\ download' = [download EXCEPT !.pc = "returned"]
  /\ DownloadUnchanged

\* no pages, no text or an unreadable file: the extraction raises
extract_error ==
  /\ download.pc = "extract"
  /\ download' = [download EXCEPT !.pc = "raised"]
  /\ DownloadUnchanged

NextDownload ==
  \/ download_start
  \/ download_setup_error
  \/ \E size \in ContentSizes : download_response(size)
  \/ \E kind \in NetworkErrors : download_network_error(kind)
  \/ download_other_error
  \/ extract_return
  \/ extract_error

\* every call made by the function returns or raises, so a step is always
\* taken while the function has not finished
SpecDownload == InitDownload /\ [][NextDownload]_vars /\ WF_vars(NextDownload)

\* ========================================================================
\* Properties
\* ========================================================================
\* the processor of (r, cat) waits for the semaphore or executes
Live(r, cat) == proc[r][cat].pc \in {"waiting", "ranking", "workers"}
\* work for cat is dispatched by request r and not finished
InFlight(r, cat) ==
  \/ run[r].pc = "scheduled" /\ cat \in run[r].cats
  \/ Live(r, cat)

\* C1: for every partition key at most one processor run is dispatched or
\* live at any instant, whatever the interleaving of requests and runs
C1_SingleFlight ==
  \A cat \in Categories : Cardinality({r \in Runs : InFlight(r, cat)}) <= 1

\* C1 witness: a later request checked a key whose processor is live, found
\* the flag set and left the key out
C1_Witness ==
  \E cat \in Categories, r1 \in Runs, r2 \in Runs :
    /\ r1 < r2
    /\ Live(r1, cat)
    /\ run[r2].pc \in {"nothing", "scheduled", "gathering", "returned"}
    /\ cat \in run[r2].checked
    /\ cat \notin run[r2].cats
    /\ find(paper_details_collection, cat, Today) = << >>

\* C2 (the claim as stated): when run_arxiv_summarizer_async returns, the
\* flag of every key passed to it is false, unless another request has
\* dispatched that key since
C2_FlagsFalseAfterRun ==
  [][\A r \in Runs :
       (run[r].pc # "returned" /\ run'[r].pc = "returned") =>
         \A cat \in run[r].cats :
           \/ ~generation_in_progress'[cat]
           \/ \E r2 \in Runs \ {r} : InFlight(r2, cat)']_vars

C4_FetchFailureClearsFlag ==
  \A r \in Runs, cat \in Categories :
    proc[r][cat].fetch \in {"caught", "raised"} =>
      /\ proc[r][cat].pc = "none"
      /\ generation_in_progress[cat] => \E r2 \in Runs \ {r} : InFlight(r2, cat)
      /\ \A c \in run[r].cats : proc[r][c].fetch = "ok" => proc[r][c].pc # "none"

\* C5: after any interleaving of orchestrator runs the store holds at most
\* one document per arxiv_id
C5_OneRecordPerId ==
  \A i, j \in DOMAIN paper_details_collection :
    paper_details_collection[i].arxiv_id = paper_details_collection[j].arxiv_id
      => i = j

Upserted(r, cat, i) ==
  /\ i \in DOMAIN proc[r][cat].worker
  /\ proc[r][cat].worker[i] \in {"landed", "saved"}

\* C5 witness: two different workers have upserted the same arxiv_id and the
\* store holds one document of it
C5_Witness ==
  \E r1, r2 \in Runs, c1, c2 \in Categories, i1, i2 \in 1..MaxCand :
    /\ <<r1, c1, i1>> # <<r2, c2, i2>>
    /\ Upserted(r1, c1, i1)
    /\ Upserted(r2, c2, i2)
    /\ proc[r1][c1].selected[i1] = proc[r2][c2].selected[i2]
    /\ CountId(paper_details_collection, proc[r1][c1].selected[i1]) = 1

\* C6 (the claim as stated): after any interleaving of on-demand requests
\* the store holds at most one document with a requested arxiv_id
C6_OnDemandOneRecordPerId ==
  \A q \in Reqs :
    reqs[q].pc # "unused" =>
      CountId(paper_details_collection, reqs[q].arxiv_id) <= 1

\* C7 (the claim as stated): no id that has a document in the store is handed
\* to the ranking oracle, and no worker enriches an id that has one
C7_NeverReEnriched ==
  [][\A r \in Runs, cat \in Categories :
       /\ (proc[r][cat].pc = "waiting" /\ proc'[r][cat].pc = "ranking") =>
            Range(proc'[r][cat].new_papers)
              \cap ExistingPaperIds(paper_details_collection) = {}
       /\ \A i \in DOMAIN proc[r][cat].worker :
            (/\ proc[r][cat].pc = "workers"
             /\ proc[r][cat].worker[i] = "dispatched"
             /\ proc'[r][cat].worker[i] = "saving") =>
              proc[r][cat].selected[i]
                \notin ExistingPaperIds(paper_details_collection)]_vars

C9_ExactlyNScores ==
  (rank.pc = "done" /\ rank.resp # OracleError) =>
    /\ Len(rank.scores) = Len(rank.papers)
    /\ \A i \in DOMAIN rank.papers :
         \E j \in DOMAIN rank.scores :
           /\ rank.scores[j][2] = i - 1
           /\ (i > Len(rank.resp) \/ rank.resp[i][1] = "bad")
                => rank.scores[j][1] = NeutralScore

ScoreOf(p) == rank.scores[p][1]
\* candidate p comes before candidate q in the order of the claim: higher
\* score first, equal scores in the order of the response
RankedBefore(p, q) ==
  ScoreOf(p) > ScoreOf(q) \/ (ScoreOf(p) = ScoreOf(q) /\ p < q)

\* C11 (the claim as stated, for a response with one line per candidate and
\* 0 <= top_k): the selection is the first top_k candidates by descending
\* score, and among equal scores the one earlier in the response comes first
C11_StableSelection ==
  (/\ rank.pc = "done"
   /\ rank.resp # OracleError
   /\ Len(rank.resp) = Len(rank.papers)
   /\ rank.top_k >= 0) =>
    /\ Len(rank.selected) = Min(rank.top_k, Len(rank.papers))
    /\ \A a, b \in DOMAIN rank.selected :
         a < b => RankedBefore(rank.selected[a], rank.selected[b])
    /\ \A a \in DOMAIN rank.selected :
         \A q \in Range(rank.papers) \ Range(rank.selected) :
           RankedBefore(rank.selected[a], q)

\* C12: when a worker of a processor run has returned None, every sibling
\* worker that has upserted has its record in the store, and once the run has
\* exited every sibling that succeeded is in the returned list
C12_SiblingsKept ==
  \A r \in Runs, cat \in Categories :
    \A i, j \in DOMAIN proc[r][cat].worker :
      (i # j /\ proc[r][cat].worker[i] = "dropped") =>
        /\ Upserted(r, cat, j) =>
             proc[r][cat].selected[j] \in ExistingPaperIds(paper_details_collection)
        /\ (proc[r][cat].pc = "exited" /\ proc[r][cat].worker[j] = "saved") =>
             proc[r][cat].selected[j] \in Range(ProcResult(proc[r][cat]))

\* C12 witness: a run has returned with its first worker dropped and its
\* second worker's record stored and returned
C12_Witness ==
  \E r \in Runs, cat \in Categories :
    /\ proc[r][cat].pc = "exited"
    /\ Len(proc[r][cat].worker) = 2
    /\ proc[r][cat].worker[1] = "dropped"
    /\ proc[r][cat].worker[2] = "saved"
    /\ proc[r][cat].selected[2] \in ExistingPaperIds(paper_details_collection)
    /\ ProcResult(proc[r][cat]) = <<proc[r][cat].selected[2]>>

\* C13 (the claim as stated): a worker whose enrichment oracle call failed
\* writes no record and its item is not in the returned list
C13_OracleFailureDropsItem ==
  \A r \in Runs, cat \in Categories :
    \A i \in DOMAIN proc[r][cat].worker :
      proc[r][cat].summary[i] = "failed" =>
        /\ ~Upserted(r, cat, i)
        /\ proc[r][cat].pc = "exited" =>
             proc[r][cat].selected[i] \notin Range(ProcResult(proc[r][cat]))

\* the processor of (r, cat) holds a permit and is inside process_category
Executing(r, cat) == proc[r][cat].pc \in {"ranking", "workers"}

\* C14 (the claim as stated): at any instant at most 3 processor runs are
\* executing in the whole process, over all orchestrator runs
C14_GlobalCap ==
  Cardinality({rc \in Runs \X Categories : Executing(rc[1], rc[2])})
    <= SemaphoreLimit

\* C15: a returned orchestrator run holds, for every partition that did not
\* raise, exactly the records that partition returned, and nothing for a
\* partition that raised or was not dispatched
C15_RunResult ==
  \A r \in Runs :
    run[r].pc = "returned" =>
      \A c \in Categories :
        LET part == SelectSeq(run[r].result, LAMBDA d : d.category_code = c)
        IN IF proc[r][c].pc = "exited" /\ proc[r][c].exit # "raised"
           THEN [j \in DOMAIN part |-> part[j].arxiv_id] = ProcResult(proc[r][c])
           ELSE part = << >>

\* C15 witness: a run has returned in which one partition raised and another
\* one contributed a record
C15_Witness ==
  \E r \in Runs, c1, c2 \in Categories :
    /\ run[r].pc = "returned"
    /\ proc[r][c1].exit = "raised"
    /\ ProcResult(proc[r][c2]) # << >>
    /\ \E k \in DOMAIN run[r].result : run[r].result[k].category_code = c2

\* C16: the status reported for a key is one of the three, it is in_progress
\* exactly when the flag the handler read was set (whatever the count),
\* otherwise completed exactly when the count of today's records it read is
\* positive, otherwise not_started; the flag and the count are those of the
\* map and of the store at the instant of the read
C16_StatusReported ==
  [][/\ \A c \in DOMAIN reads'.status_info \ DOMAIN reads.status_info :
          /\ c = reads.cat
          /\ reads'.status_info[c] \in {"in_progress", "completed", "not_started"}
          /\ (reads'.status_info[c] = "in_progress") <=> reads.is_generating
          /\ (reads'.status_info[c] = "completed") <=>
               (~reads.is_generating /\ reads.existing_count > 0)
     /\ (reads' # reads /\ reads'.kind = "status" /\ reads'.pc = "count_today") =>
          reads'.is_generating = generation_in_progress[reads'.cat]
     /\ (reads.kind = "status" /\ reads.pc = "count_today"
           /\ reads'.pc = "count_total") =>
          reads'.existing_count =
            Len(find(paper_details_collection, reads.cat, Today))]_vars

\* C16 witness: a key is reported in_progress although it has records of
\* today
C16_Witness ==
  \E c \in Categories :
    /\ reads.kind = "status"
    /\ c \in DOMAIN reads.status_info
    /\ reads.status_info[c] = "in_progress"
    /\ generation_in_progress[c]
    /\ find(paper_details_collection, c, Today) # << >>

\* C17: a step of a read handler leaves the in-progress map and the store
\* as they are
C17_ReadsChangeNothing ==
  [][reads' # reads =>
       /\ generation_in_progress' = generation_in_progress
       /\ paper_details_collection' = paper_details_collection]_vars

\* C17 witness: a read has been answered while a key is generating and the
\* store holds records
C17_Witness ==
  /\ reads.pc = "done"
  /\ reads.code = 200
  /\ paper_details_collection # << >>
  /\ \E c \in Categories : generation_in_progress[c]

\* request r is answered in this step
Answered(r) == run[r].pc = "unused" /\ run'[r].pc \in {"scheduled", "nothing"}
TodaysRecords(c) == find(paper_details_collection, c, Today)

\* C18 (the claim as stated): a key is scheduled only if its flag is false
\* and it has no record of today; every checked key that has such records
\* gets them as existing_papers with status completed and is not scheduled;
\* no run is scheduled when no key qualifies
C18_SchedulesOnlyMissing ==
  [][\A r \in Runs :
       Answered(r) =>
         /\ \A c \in run'[r].cats :
              ~generation_in_progress[c] /\ TodaysRecords(c) = << >>
         /\ \A c \in run'[r].checked :
              TodaysRecords(c) # << >> =>
                /\ c \notin run'[r].cats
                /\ c \in DOMAIN run'[r].existing_papers
                /\ run'[r].existing_papers[c] = TodaysRecords(c)
                /\ run'[r].generation_status[c] = "completed"
         /\ (run'[r].pc = "nothing") <=> (run'[r].cats = {})]_vars

\* C18 (amended): as above, but a key that has records of today gets them as
\* existing_papers with status completed only when its flag is false; a key
\* whose flag is set is reported in_progress, without existing_papers
C18_SchedulesOnlyMissingOrReportsProgress ==
  [][\A r \in Runs :
       Answered(r) =>
         /\ \A c \in run'[r].cats :
              ~generation_in_progress[c] /\ TodaysRecords(c) = << >>
         /\ \A c \in run'[r].checked :
              /\ (~generation_in_progress[c] /\ TodaysRecords(c) # << >>) =>
                   /\ c \notin run'[r].cats
                   /\ c \in DOMAIN run'[r].existing_papers
                   /\ run'[r].existing_papers[c] = TodaysRecords(c)
                   /\ run'[r].generation_status[c] = "completed"
              /\ generation_in_progress[c] =>
                   /\ c \notin run'[r].cats
                   /\ c \notin DOMAIN run'[r].existing_papers
                   /\ run'[r].generation_status[c] = "in_progress"
         /\ (run'[r].pc = "nothing") <=> (run'[r].cats = {})]_vars

\* C18 witness: a request was answered with today's records of one key as
\* existing_papers, status completed, and scheduled nothing
C18_Witness ==
  \E r \in Runs, c \in Categories :
    /\ run[r].pc = "nothing"
    /\ c \in DOMAIN run[r].existing_papers
    /\ run[r].existing_papers[c] # << >>
    /\ run[r].generation_status[c] = "completed"

\* C19: from the answer of the request that selected it until its processor
\* exits, while it is queued for dispatch, waiting to start or executing, a
\* key has its flag set
C19_FlagHeldWhileInFlight ==
  \A r \in Runs, cat \in Categories :
    InFlight(r, cat) => generation_in_progress[cat]

\* C19 witness: a key is queued behind the cap (its run's semaphore has no
\* permit left, three partitions of the run are executing) and its flag is set
C19_Witness ==
  \E r \in Runs, c1 \in Categories :
    /\ proc[r][c1].pc = "waiting"
    /\ semaphore[r] = 0
    /\ Cardinality({c \in Categories : Executing(r, c)}) = SemaphoreLimit
    /\ generation_in_progress[c1]

\* C20: the records a processor run returns are in the store when it exits,
\* and a worker that got no title, no arxiv_id or an exception stays dropped
\* (it is not run again) and its item is not in the returned list
C20_ReturnedAreStored ==
  [][\A r \in Runs, cat \in Categories :
       /\ proc'[r][cat].pc = "exited" =>
            Range(ProcResult(proc'[r][cat]))
              \subseteq ExistingPaperIds(paper_details_collection')
       /\ \A i \in DOMAIN proc[r][cat].worker :
            (\/ proc[r][cat].worker[i] = "dropped"
             \/ proc[r][cat].summary[i] \in {"untitled", "no_id"}) =>
              /\ proc'[r][cat].worker[i] = "dropped"
              /\ (/\ proc'[r][cat].pc = "exited"
                  /\ proc[r][cat].selected[i] \in Range(ProcResult(proc'[r][cat]))) =>
                   \E k \in DOMAIN proc'[r][cat].worker :
                     /\ k # i
                     /\ proc'[r][cat].worker[k] = "saved"
                     /\ proc'[r][cat].selected[k] = proc[r][cat].selected[i]]_vars

\* C20 witness: a run has returned a stored record while a sibling item
\* without title or without arxiv_id was dropped
C20_Witness ==
  \E r \in Runs, cat \in Categories :
    \E i, j \in DOMAIN proc[r][cat].worker :
      /\ proc[r][cat].pc = "exited"
      /\ proc[r][cat].summary[i] \in {"untitled", "no_id"}
      /\ proc[r][cat].worker[i] = "dropped"
      /\ proc[r][cat].worker[j] = "saved"
      /\ ProcResult(proc[r][cat]) = <<proc[r][cat].selected[j]>>
      /\ proc[r][cat].selected[j] \in ExistingPaperIds(paper_details_collection)

\* C21: a processor run called with an empty candidate list exits in its first
\* step with the empty list, having made no store query, no ranking call and
\* no enrichment call, and the store is as it was
C21_EmptyListReturnsAtOnce ==
  [][\A r \in Runs, cat \in Categories :
       (/\ proc[r][cat].pc = "waiting"
        /\ proc[r][cat].papers = << >>
        /\ proc'[r][cat] # proc[r][cat]) =>
         /\ proc'[r][cat].pc = "exited"
         /\ ProcResult(proc'[r][cat]) = << >>
         /\ proc'[r][cat].finds = 0
         /\ proc'[r][cat].rankings = 0
         /\ proc'[r][cat].enriched = << >>
         /\ paper_details_collection' = paper_details_collection]_vars

\* C21 witness: a run on an empty list has exited over a store that holds a
\* record
C21_Witness ==
  \E r \in Runs, cat \in Categories :
    /\ proc[r][cat].pc = "exited"
    /\ proc[r][cat].exit = "empty"
    /\ proc[r][cat].papers = << >>
    /\ proc[r][cat].finds = 0
    /\ paper_details_collection # << >>

\* C22: a worker whose download for the reader failed goes on to the upsert;
\* when the upsert lands the store holds the item's record with the failure
\* as pdf_status; and in every stored record pdf_path is set exactly when
\* pdf_status is "Successfully downloaded"
C22_DownloadFailureStillPersists ==
  [][/\ \A r \in Runs, cat \in Categories :
          \A i \in DOMAIN proc[r][cat].worker :
            /\ (/\ proc[r][cat].worker[i] = "dispatched"
                /\ proc'[r][cat].summary[i] = "download_failed") =>
                 proc'[r][cat].worker[i] = "saving"
            /\ (/\ proc[r][cat].summary[i] = "download_failed"
                /\ proc[r][cat].worker[i] = "saving"
                /\ proc'[r][cat].worker[i] = "landed") =>
                 \E k \in DOMAIN paper_details_collection' :
                   /\ paper_details_collection'[k].arxiv_id = proc[r][cat].selected[i]
                   /\ paper_details_collection'[k].pdf_status = "Download failed"
                   /\ paper_details_collection'[k].pdf_path = None
     /\ \A k \in DOMAIN paper_details_collection' :
          (paper_details_collection'[k].pdf_path # None) <=>
            (paper_details_collection'[k].pdf_status = "Successfully downloaded")]_vars

\* C22 witness: a worker whose download failed has returned its record, which
\* is in the store with the failure as pdf_status, next to a record whose
\* download went through
C22_Witness ==
  \E r \in Runs, cat \in Categories :
    \E i \in DOMAIN proc[r][cat].worker :
      /\ proc[r][cat].summary[i] = "download_failed"
      /\ proc[r][cat].worker[i] = "saved"
      /\ \E k \in DOMAIN paper_details_collection :
           /\ paper_details_collection[k].arxiv_id = proc[r][cat].selected[i]
           /\ paper_details_collection[k].pdf_status = "Download failed"
      /\ \E k \in DOMAIN paper_details_collection :
           paper_details_collection[k].pdf_status = "Successfully downloaded"

\* C23 (the claim as stated): GET /api/blog/{slug} answers 404 when the lookup
\* went through and found no record, and 500 only when the lookup failed
C23_BlogNotFoundIs404 ==
  (reads.kind = "blog" /\ reads.pc = "done") =>
    /\ (~reads.error /\ reads.papers = << >>) => reads.code = 404
    /\ reads.code = 500 => reads.error

\* C24: GET /api/papers hands find(query).sort a field of the allow-list: the
\* sort_by parameter when it is in the list and published_date otherwise; the
\* response echoes that field, and an unknown parameter is no error
C24_SortFieldAllowed ==
  (reads.kind = "papers" /\ reads.pc # "unused") =>
    /\ reads.sort_by \in ValidSortFields
    /\ reads.sort_by =
         (IF reads.asked \in ValidSortFields THEN reads.asked ELSE "published_date")
    /\ (reads.pc = "done" /\ ~reads.error) => reads.code = 200

\* C24 witness: a request with an unknown sort_by has been answered with the
\* page of records, sorted by published_date
C24_Witness ==
  /\ reads.kind = "papers"
  /\ reads.pc = "done"
  /\ reads.code = 200
  /\ reads.asked = "rating"
  /\ reads.sort_by = "published_date"
  /\ reads.papers # << >>

\* C25: the slug of every text is made of a-z, 0-9 and "-" only, has no
\* hyphen at either end and no two hyphens in a row, and slugify of the slug
\* is the slug
C25_SlugShape ==
  (slugcall.pc \in {"done", "again"} =>
     /\ \A i \in DOMAIN slugcall.slug :
          slugcall.slug[i] \in {"a", "b", "i", "7", "-"}
     /\ slugcall.slug # << >> =>
          slugcall.slug[1] # "-" /\ slugcall.slug[Len(slugcall.slug)] # "-"
     /\ \A i \in 1..(Len(slugcall.slug) - 1) :
          ~(slugcall.slug[i] = "-" /\ slugcall.slug[i + 1] = "-"))
  /\ (slugcall.pc = "again" => slugcall.again = slugcall.slug)

\* C25 witness: a text with an upper-case letter and whitespace next to a
\* hyphen has been slugified twice
C25_Witness ==
  /\ slugcall.pc = "again"
  /\ slugcall.text = <<"B", " ", "-", "a">>
  /\ slugcall.slug = <<"b", "-", "a">>
  /\ slugcall.again = slugcall.slug

\* C26: in every orchestrator run at most 3 partitions are inside
\* process_category, the permits of its semaphore are between 0 and 3, the
\* permits that are out are exactly those of the partitions inside (a
\* partition that has exited, by return or by exception, holds none), and all
\* permits are back when the run has returned
C26_PerRunCap ==
  \A r \in Runs :
    /\ Cardinality({c \in Categories : Executing(r, c)}) <= SemaphoreLimit
    /\ semaphore[r] \in 0..SemaphoreLimit
    /\ semaphore[r] =
         SemaphoreLimit - Cardinality({c \in Categories : Executing(r, c)})
    /\ run[r].pc = "returned" => semaphore[r] = SemaphoreLimit

\* C26 witness: a run of four partitions has no permit left although one of
\* them has returned: the permit that came back was taken by the partition
\* that waited
C26_Witness ==
  \E r \in Runs, c1 \in Categories :
    /\ semaphore[r] = 0
    /\ proc[r][c1].pc = "exited" /\ proc[r][c1].exit = "returned"
    /\ Cardinality({c \in Categories : Executing(r, c)}) = SemaphoreLimit
    /\ Cardinality(run[r].cats) > SemaphoreLimit

\* C27 (the claim as stated, its last clause): a status request that has
\* returned reports completed for a key only if, at some instant between its
\* start and its end, the key had a record of today while its flag was false
C27_PointInTimeStatus ==
  (reads.kind = "status" /\ reads.pc = "done" /\ ~reads.error) =>
    \A c \in DOMAIN reads.status_info :
      reads.status_info[c] = "completed" => seen[c]

\* C28: in a processor run the ranking call starts in a step in which the id
\* query has been made and the candidates handed to the oracle are the
\* candidates without the stored ids, and no worker exists yet; workers
\* appear only in the step in which the ranking call returns, one per
\* selected paper; a run that got as far as ranking has made exactly one
\* ranking call, any run at most one, and every worker at most one
\* enrichment call
C28_StepsInOrder ==
  [][\A r \in Runs, cat \in Categories :
       LET p == proc[r][cat]
           q == proc'[r][cat]
       IN /\ q.finds <= 1
          /\ q.rankings <= 1
          /\ (p.rankings = 0 /\ q.rankings = 1) =>
               /\ q.finds = 1
               /\ q.new_papers =
                    NewPapers(p.papers, ExistingPaperIds(paper_details_collection))
               /\ q.new_papers # << >>
               /\ q.worker = << >>
          /\ (p.worker = << >> /\ q.worker # << >>) =>
               /\ p.pc = "ranking"
               /\ p.rankings = 1
               /\ q.pc = "workers"
               /\ \A i \in DOMAIN q.worker : q.enriched[i] = 0
          /\ (q.pc \in {"ranking", "workers"}
                \/ (q.pc = "exited" /\ q.exit = "returned")) => q.rankings = 1
          /\ DOMAIN q.worker = DOMAIN q.selected
          /\ DOMAIN q.enriched = DOMAIN q.selected
          /\ \A i \in DOMAIN q.enriched : q.enriched[i] <= 1]_vars

\* C28 witness: a run whose candidates were cut down by the dedup has
\* returned after one ranking call and one enrichment call for each of its
\* two selected papers
C28_Witness ==
  \E r \in Runs, cat \in Categories :
    /\ proc[r][cat].pc = "exited"
    /\ proc[r][cat].exit = "returned"
    /\ proc[r][cat].finds = 1
    /\ proc[r][cat].rankings = 1
    /\ Len(proc[r][cat].new_papers) < Len(proc[r][cat].papers)
    /\ Len(proc[r][cat].selected) = 2
    /\ \A i \in DOMAIN proc[r][cat].enriched : proc[r][cat].enriched[i] = 1

\* C29 (the claim as stated): in a processor run no two dispatched workers
\* carry the same catalog id, whatever the candidate list and the oracle
\* response
C29_NoDuplicateWorkers ==
  \A r \in Runs, cat \in Categories :
    \A i, j \in DOMAIN proc[r][cat].worker :
      proc[r][cat].selected[i] = proc[r][cat].selected[j] => i = j

\* C30 (the claim as stated): when the ranking oracle call raised or its
\* response had no usable line, the run goes on: the selection is the first
\* max_papers deduplicated candidates in their order, and they get their
\* workers
C30_RankingFallback ==
  \A r \in Runs, cat \in Categories :
    proc[r][cat].ranked \in {"raised", "unusable"} =>
      /\ proc[r][cat].pc \in {"workers", "exited"}
      /\ proc[r][cat].exit # "raised"
      /\ proc[r][cat].selected = PySlice(proc[r][cat].new_papers, run[r].max_papers)
      /\ DOMAIN proc[r][cat].worker = DOMAIN proc[r][cat].selected

\* C31: no step of a run, of an on-demand fetch or of a PDF analysis removes
\* a record: every document of the store is still there after the step, under
\* the same arxiv_id, so the set of stored ids never shrinks
C31_StoreNeverShrinks ==
  [][/\ \A i \in DOMAIN paper_details_collection :
          /\ i \in DOMAIN paper_details_collection'
          /\ paper_details_collection'[i].arxiv_id = paper_details_collection[i].arxiv_id
     /\ ExistingPaperIds(paper_details_collection)
          \subseteq ExistingPaperIds(paper_details_collection')]_vars

\* C31 witness: the run has returned and both requests are answered, the
\* store holds two ids, one written by the fetch request's insert and one by
\* the run's upsert, and the PDF analysis has updated a record
C31_Witness ==
  /\ run[1].pc = "returned"
  /\ \A q \in Reqs : reqs[q].pc = "done" /\ reqs[q].status = 200
  /\ Cardinality(ExistingPaperIds(paper_details_collection)) = 2
  /\ \E c \in Categories, i \in 1..MaxCand : Upserted(1, c, i)
  /\ \E i \in DOMAIN paper_details_collection :
       paper_details_collection[i].pdf_analysis

\* the attempts of download_and_analyze_pdf made so far are in order: at most
\* 3 of them; every attempt but the last one ended in a network error (so
\* nothing is retried after a response or after another error); a third
\* network failure in a row has raised; content below 1000 bytes has raised
C32_DownloadSafe ==
  /\ Len(download.log) <= MaxRetries
  /\ \A i \in 1..(Len(download.log) - 1) : download.log[i].outcome \in NetworkErrors
  /\ (download.pc = "trying" => Len(download.log) = download.attempt)
  /\ (/\ Len(download.log) = MaxRetries
      /\ download.log[MaxRetries].outcome \in NetworkErrors) => download.pc = "raised"
  /\ \A i \in DOMAIN download.log :
       (download.log[i].outcome = "response" /\ download.log[i].size < MinPdfBytes)
         => download.pc = "raised"
  /\ \A i \in DOMAIN download.log :
       (download.log[i].outcome = "response" /\ download.log[i].size >= MinPdfBytes)
         => download.pc \in {"extract", "returned", "raised"}

\* C32: download_and_analyze_pdf makes at most 3 download attempts, retries
\* only after a network error, stops retrying after a response, raises after
\* the third network failure in a row and at once for content below 1000
\* bytes; and in every case it finishes, by returning or by raising
C32_DownloadRetries ==
  []C32_DownloadSafe /\ <>(download.pc \in {"returned", "raised"})

\* C32 witness: the function has raised after three network failures in a row
C32_Witness ==
  /\ download.pc = "raised"
  /\ Len(download.log) = MaxRetries
  /\ \A i \in DOMAIN download.log : download.log[i].outcome \in NetworkErrors

\* C33 (the claim as stated): at any instant at most one item worker is
\* inside the lock-guarded block of extract_pdf_text
C33_OneReaderAtATime ==
  Cardinality({w \in Runs \X Categories \X (1..MaxCand) :
                 /\ w[3] \in DOMAIN proc[w[1]][w[2]].worker
                 /\ proc[w[1]][w[2]].worker[w[3]] = "reading"}) <= 1

\* C34 (the claim as stated): fetch_papers_by_category returns at most
\* max_results papers, each of them at most days_back days old, and returns
\* the empty list when the catalog request fails
C34_FetchBound ==
  fetchcall.pc = "returned" =>
    /\ Len(fetchcall.results) <= fetchcall.max_results
    /\ \A i \in DOMAIN fetchcall.results : fetchcall.age[fetchcall.results[i]] <= DaysBack
    /\ (fetchcall.failed => fetchcall.results = << >>)

\* C35: a fetch-arxiv-paper request whose lookup finds a record answers 200
\* at that step (unless the lookup itself fails) and has then made no catalog
\* search, no oracle call and no write; a request without arxiv_id answers
\* 400 and one whose catalog search finds nothing answers 404, both without
\* an oracle call or a write, and the step that answers leaves the store as
\* it was
C35_FetchExistingIsReturned ==
  [][\A q \in Reqs :
       /\ (/\ reqs[q].kind = "fetch" /\ reqs[q].pc = "find"
           /\ find_one(paper_details_collection, reqs[q].arxiv_id) # 0
           /\ reqs'[q] # reqs[q] /\ reqs'[q].status # 500)
          => /\ reqs'[q].pc = "done" /\ reqs'[q].status = 200 /\ reqs'[q].hit
             /\ paper_details_collection' = paper_details_collection
       /\ (reqs'[q].kind = "fetch" /\ reqs'[q].pc = "done") =>
            /\ reqs'[q].hit =>
                 /\ reqs'[q].status = 200
                 /\ reqs'[q].searches = 0 /\ reqs'[q].summaries = 0 /\ reqs'[q].writes = 0
            /\ reqs'[q].arxiv_id = None =>
                 /\ reqs'[q].status = 400
                 /\ reqs'[q].searches = 0 /\ reqs'[q].summaries = 0 /\ reqs'[q].writes = 0
            /\ (reqs'[q].searches = 1 /\ reqs'[q].summaries = 0) => reqs'[q].status = 404
            /\ reqs'[q].status = 404 =>
                 /\ reqs'[q].searches = 1 /\ reqs'[q].summaries = 0 /\ reqs'[q].writes = 0
            /\ (reqs'[q].status \in {400, 404} /\ reqs[q].pc # "done")
                 => paper_details_collection' = paper_details_collection]_vars

\* C35 witness: a first fetch request has inserted the record of p1 and a
\* second one for p1 has found it and answered 200
C35_Witness ==
  /\ reqs[1].kind = "fetch" /\ reqs[1].arxiv_id = "p1" /\ reqs[1].writes = 1
  /\ reqs[2].kind = "fetch" /\ reqs[2].arxiv_id = "p1"
  /\ reqs[2].pc = "done" /\ reqs[2].hit /\ reqs[2].status = 200
  /\ CountId(paper_details_collection, "p1") = 1

\* C36: when GET /api/generate fails after it has set flags, the step leaves
\* every flag it set false and every other flag as it was, it schedules
\* nothing, and nothing is ever run for that request
C36_FailedRequestClearsItsFlags ==
  [][\A r \in Runs :
       /\ (run[r].pc = "unused" /\ run'[r].pc = "failed") =>
            /\ \A c \in run'[r].cats : ~generation_in_progress'[c]
            /\ \A c \in Categories \ run'[r].cats :
                 generation_in_progress'[c] = generation_in_progress[c]
            /\ proc' = proc
       /\ run[r].pc = "failed" => (run'[r] = run[r] /\ proc'[r] = proc[r])]_vars

\* C36 witness: the second request had selected cs.LG when its lookup for
\* cs.CV raised; the flag of cs.LG is false again, the flag of cs.CL, which
\* the first request holds, is still true, and nothing runs for the request
C36_Witness ==
  /\ run[2].pc = "failed"
  /\ run[2].cats = {"cs.LG"}
  /\ ~generation_in_progress["cs.LG"]
  /\ generation_in_progress["cs.CL"]
  /\ run[1].pc \in {"scheduled", "gathering"}
  /\ \A c \in Categories : proc[2][c] = NoProc

\* C37: a run that fails before its fetch loop returns the empty list, and
\* the step leaves the flag of every key passed to the run false and every
\* other flag as it was
C37_SetupFailureClearsFlags ==
  [][\A r \in Runs :
       (run[r].error = "none" /\ run'[r].error = "setup") =>
         /\ run'[r].pc = "returned"
         /\ run'[r].result = << >>
         /\ \A c \in run[r].cats : ~generation_in_progress'[c]
         /\ \A c \in Categories \ run[r].cats :
              generation_in_progress'[c] = generation_in_progress[c]]_vars

\* C37 witness: the run of a request for both keys has failed at setup and
\* returned, and both flags are false
C37_Witness ==
  /\ run[1].error = "setup"
  /\ run[1].pc = "returned"
  /\ run[1].cats = TwoCategories
  /\ run[1].result = << >>
  /\ \A c \in TwoCategories : ~generation_in_progress[c]

\* C38: every run terminates: while a run awaits its partitions, a state
\* follows in which the run has returned and every partition, the one that
\* waited for a permit of the semaphore included, has got its permit and exited
C38_RunTerminates ==
  (\E r \in Runs : run[r].pc = "gathering")
    ~> (\A r \in Runs :
          /\ run[r].pc \in {"unused", "returned"}
          /\ \A c \in Categories : proc[r][c].pc \in {"none", "exited"})

\* C38 witness: three partitions of the run hold the three permits and the
\* fourth one waits
C38_Witness ==
  /\ semaphore[1] = 0
  /\ Cardinality({c \in Categories : proc[1][c].pc \in {"ranking", "workers"}})
       = SemaphoreLimit
  /\ \E c \in Categories : proc[1][c].pc = "waiting"

====
